---- MODULE Spec2Model ----
(***************************************************************************)
(* Model of the resilient batch downloader of src/src/process_videos.py:   *)
(* the tracking ledger, the download worker (download_video) with its      *)
(* retry, backoff and stall detection, and the batch scheduler             *)
(* (download_videos) with its semaphore and inter-batch pacing.            *)
(*                                                                         *)
(* Strings are sequences of one-character strings, so that strip, split    *)
(* and startswith are computed and not assumed.  Times are whole seconds,  *)
(* sizes are bytes.  One action is one run of a coroutine between two      *)
(* awaits of the asyncio event loop.                                       *)
(***************************************************************************)
EXTENDS Integers, Sequences, FiniteSets, TLC

VARIABLES
    ledger,           \* downloaded.txt: [exists, data], data a sequence of characters
    sizes,            \* file_sizes.json: [exists, data], data a function filename -> recorded size
    worklist,         \* download_list.txt: a sequence of raw lines
    limit,            \* the --limit argument: <<>> for None, <<n>> for the integer n
    files,            \* download directory: a function filename -> size in bytes
    downloaded_files, \* download_videos: the completed set read at batch start
    video_urls,       \* download_videos: the filtered (and truncated) work list
    sched,            \* download_videos: [pc, i, pacing, log] position in the batch loop, and what it has logged
    semaphore,        \* asyncio.Semaphore value
    workers,          \* one download_with_semaphore task per entry of video_urls
    hist,             \* per worker: what the worker has done so far (bookkeeping for the properties)
    ledger_at_start,  \* the ledger as the batch run found it (bookkeeping for the properties)
    faults,           \* exceptions the environment has raised so far in a batch run
    probe             \* a call of get_expected_file_size: [pc, url, outcome, result]

vars == <<ledger, sizes, worklist, limit, files, downloaded_files, video_urls,
          sched, semaphore, workers, hist, ledger_at_start, faults, probe>>

----------------------------------------------------------------------------
(* Program constants, src/src/process_videos.py lines 28-39. *)

CHUNK_TIMEOUT == 1800
MAX_RETRIES == 5
RETRY_DELAY == 300
MAX_CONCURRENT_DOWNLOADS == 2
CHUNK_SIZE == 1048576
RATE_LIMIT_DELAY == 60
SPEED_CHECK_INTERVAL == 60
MIN_SPEED_BYTES_PER_SECOND == 1024

(* Bounds of the model. *)
MaxChunks == 4        \* chunks read in one attempt of a single download
MaxBatchChunks == 1   \* chunks read in one attempt inside a batch run
MaxBatchFaults == 1   \* exceptions raised by the environment during one batch run
MaxFairFaults == 5    \* the same in a fair batch run: enough for one worker to use every attempt

----------------------------------------------------------------------------
(* Strings. *)

HTTP == <<"h", "t", "t", "p", ":", "/", "/">>
HTTPS == <<"h", "t", "t", "p", "s", ":", "/", "/">>
\* The characters str.strip() removes: those for which str.isspace() is true,
\* U+0009..U+000D, U+001C..U+001F, space, U+0085, U+00A0, U+1680 (the
\* remaining ones, U+2000 and above, cannot be written in a module string)
Whitespace ==
    {"\t", "\n", "", "\f", "\r", "", "", "", "", " ", "", " ", " "}

\* The characters int() skips around a number: the same without U+001C..U+001F
IntWhitespace == Whitespace \ {"", "", "", ""}

\* str.startswith(prefix)
StartsWith(s, p) == Len(s) >= Len(p) /\ SubSeq(s, 1, Len(p)) = p

RECURSIVE LStripOf(_, _)
LStripOf(s, ws) == IF s # <<>> /\ Head(s) \in ws THEN LStripOf(Tail(s), ws) ELSE s

RECURSIVE RStripOf(_, _)
RStripOf(s, ws) ==
    IF s # <<>> /\ s[Len(s)] \in ws THEN RStripOf(SubSeq(s, 1, Len(s) - 1), ws) ELSE s

LStrip(s) == LStripOf(s, Whitespace)
RStrip(s) == RStripOf(s, Whitespace)

\* str.strip()
Strip(s) == RStrip(LStrip(s))

\* str.split(sep): the pieces between occurrences of the one-character sep
RECURSIVE SplitFrom(_, _, _, _)
SplitFrom(s, sep, i, cur) ==
    IF i > Len(s) THEN <<cur>>
    ELSE IF s[i] = sep THEN <<cur>> \o SplitFrom(s, sep, i + 1, <<>>)
    ELSE SplitFrom(s, sep, i + 1, Append(cur, s[i]))

Split(s, sep) == SplitFrom(s, sep, 1, <<>>)

Range(s) == {s[i] : i \in 1..Len(s)}

\* Reading a file opened in text mode: "\r\n" and a lone "\r" become "\n"
RECURSIVE UniversalNewlines(_)
UniversalNewlines(s) ==
    IF s = <<>> THEN <<>>
    ELSE IF Head(s) = "\r"
    THEN <<"\n">> \o UniversalNewlines(IF Len(s) >= 2 /\ s[2] = "\n"
                                       THEN SubSeq(s, 3, Len(s)) ELSE Tail(s))
    ELSE <<Head(s)>> \o UniversalNewlines(Tail(s))

\* `for line in f`: the lines of a text file
FileLines(data) == Split(UniversalNewlines(data), "\n")

----------------------------------------------------------------------------
(* Tracking store. *)

\* get_downloaded_files: the stripped non-blank lines of the ledger
get_downloaded_files(l) ==
    IF ~l.exists THEN {}
    ELSE {Strip(line) : line \in {x \in Range(FileLines(l.data)) : Strip(x) # <<>>}}

\* get_expected_sizes: the mapping of the sizes file, empty when the file is missing
get_expected_sizes(sf) == IF ~sf.exists THEN <<>> ELSE sf.data

\* get_expected_sizes().get(filename), None when absent: <<>> or <<size>>
expected_size_of(sz, filename) ==
    LET file_sizes == get_expected_sizes(sz) IN
    IF filename \in DOMAIN file_sizes THEN <<file_sizes[filename]>> ELSE <<>>

\* Faulty variant: only the http scheme counts as a URL
is_url_HttpOnly(path) == StartsWith(path, HTTP)

\* is_url
is_url(path) == StartsWith(path, HTTP) \/ StartsWith(path, HTTPS)

\* get_filename: the last path segment
get_filename(path) ==
    LET parts == Split(path, "/") IN parts[Len(parts)]

\* Faulty variant: the ledger is opened for writing, not for appending
mark_as_downloaded_Overwrite(l, filename) ==
    [exists |-> TRUE, data |-> <<"\n">> \o filename]

\* Faulty variant: the filename is appended without the newline before it
mark_as_downloaded_NoNewline(l, filename) ==
    [exists |-> TRUE, data |-> (IF l.exists THEN l.data ELSE <<>>) \o filename]

\* mark_as_downloaded: append a newline and the filename
mark_as_downloaded(l, filename) ==
    [exists |-> TRUE, data |-> (IF l.exists THEN l.data ELSE <<>>) \o <<"\n">> \o filename]

----------------------------------------------------------------------------
(* The size prober: get_expected_file_size. *)

\* The characters int() reads as decimal digits, one row of "0" to "9" for
\* each script: every character of Unicode category Nd that can be written in
\* a module string (ASCII, then the rows that start at
\* U+06F0, U+07C0, U+09E6, U+0AE6, U+0BE6, U+0CE6, U+0DE6, U+0ED0, U+1090,
\* U+17E0, U+19D0, U+1A80, U+1A90, U+1BB0, U+A8D0, U+A9D0, U+A9F0, U+ABF0)
DecimalDigits ==
    << <<"0", "1", "2", "3", "4", "5", "6", "7", "8", "9">>,
       <<"۰", "۱", "۲", "۳", "۴", "۵", "۶", "۷", "۸", "۹">>,
       <<"߀", "߁", "߂", "߃", "߄", "߅", "߆", "߇", "߈", "߉">>,
       <<"০", "১", "২", "৩", "৪", "৫", "৬", "৭", "৮", "৯">>,
       <<"૦", "૧", "૨", "૩", "૪", "૫", "૬", "૭", "૮", "૯">>,
       <<"௦", "௧", "௨", "௩", "௪", "௫", "௬", "௭", "௮", "௯">>,
       <<"೦", "೧", "೨", "೩", "೪", "೫", "೬", "೭", "೮", "೯">>,
       <<"෦", "෧", "෨", "෩", "෪", "෫", "෬", "෭", "෮", "෯">>,
       <<"໐", "໑", "໒", "໓", "໔", "໕", "໖", "໗", "໘", "໙">>,
       <<"႐", "႑", "႒", "႓", "႔", "႕", "႖", "႗", "႘", "႙">>,
       <<"០", "១", "២", "៣", "៤", "៥", "៦", "៧", "៨", "៩">>,
       <<"᧐", "᧑", "᧒", "᧓", "᧔", "᧕", "᧖", "᧗", "᧘", "᧙">>,
       <<"᪀", "᪁", "᪂", "᪃", "᪄", "᪅", "᪆", "᪇", "᪈", "᪉">>,
       <<"᪐", "᪑", "᪒", "᪓", "᪔", "᪕", "᪖", "᪗", "᪘", "᪙">>,
       <<"᮰", "᮱", "᮲", "᮳", "᮴", "᮵", "᮶", "᮷", "᮸", "᮹">>,
       <<"꣐", "꣑", "꣒", "꣓", "꣔", "꣕", "꣖", "꣗", "꣘", "꣙">>,
       <<"꧐", "꧑", "꧒", "꧓", "꧔", "꧕", "꧖", "꧗", "꧘", "꧙">>,
       <<"꧰", "꧱", "꧲", "꧳", "꧴", "꧵", "꧶", "꧷", "꧸", "꧹">>,
       <<"꯰", "꯱", "꯲", "꯳", "꯴", "꯵", "꯶", "꯷", "꯸", "꯹">> >>

IsDigit(c) == \E r \in 1..Len(DecimalDigits), d \in 1..10 : DecimalDigits[r][d] = c
DigitValue(c) ==
    (CHOOSE d \in 1..10 : \E r \in 1..Len(DecimalDigits) : DecimalDigits[r][d] = c) - 1

RECURSIVE DecimalValue(_)
DecimalValue(s) ==
    IF s = <<>> THEN 0
    ELSE 10 * DecimalValue(SubSeq(s, 1, Len(s) - 1)) + DigitValue(s[Len(s)])

\* The digits of a number written with digit grouping: "1_000" without its "_"
DigitsOf(body) == SelectSeq(body, LAMBDA c : c # "_")

\* Is body a decimal literal of int(): digits, with single underscores
\* between digits only
IsDecimal(body) ==
    /\ body # <<>>
    /\ \A k \in 1..Len(body) :
          \/ IsDigit(body[k])
          \/ /\ body[k] = "_"
             /\ 1 < k
             /\ k < Len(body)
             /\ IsDigit(body[k - 1])
             /\ IsDigit(body[k + 1])

\* int(text) of a header value: <<n>>, or <<>> when int raises ValueError.
\* Whitespace around the number and one sign before it are accepted.
ParseInt(text) ==
    LET t == RStripOf(LStripOf(text, IntWhitespace), IntWhitespace)
        signed == t # <<>> /\ t[1] \in {"+", "-"}
        body == IF signed THEN Tail(t) ELSE t
    IN  IF ~IsDecimal(body) THEN <<>>
        ELSE IF signed /\ t[1] = "-" THEN <<0 - DecimalValue(DigitsOf(body))>>
        ELSE <<DecimalValue(DigitsOf(body))>>

\* A header that is absent, or present with a text value
NoHeader == [present |-> FALSE, value |-> <<>>]
Header(text) == [present |-> TRUE, value |-> text]

\* int(response.headers.get('Content-Length', 0))
ContentLength(header) == IF header.present THEN ParseInt(header.value) ELSE <<0>>

\* What a call returns: None (<<>>) or the size (<<n>>); raised when an
\* exception leaves the function
ProbeResult(raised, value) == [raised |-> raised, value |-> value]

\* Faulty variant: a declared length of zero is returned as a size
get_expected_file_size_ZeroLength(outcome) ==
    IF outcome.raise # "none" THEN ProbeResult(FALSE, <<>>)
    ELSE IF outcome.status = 200
    THEN LET size == ContentLength(outcome.header) IN
         IF size = <<>> THEN ProbeResult(FALSE, <<>>)
         ELSE IF size[1] >= 0 THEN ProbeResult(FALSE, size)
         ELSE ProbeResult(FALSE, <<>>)
    ELSE ProbeResult(FALSE, <<>>)

\* get_expected_file_size on the outcome of the HEAD request: an exception
\* raised by the request or by int() is caught by `except Exception`
get_expected_file_size(outcome) ==
    IF outcome.raise # "none" THEN ProbeResult(FALSE, <<>>)
    ELSE IF outcome.status = 200
    THEN LET size == ContentLength(outcome.header) IN
         IF size = <<>> THEN ProbeResult(FALSE, <<>>)
         ELSE IF size[1] > 0 THEN ProbeResult(FALSE, size)
         ELSE ProbeResult(FALSE, <<>>)
    ELSE ProbeResult(FALSE, <<>>)

NoOutcome == [raise |-> "none", status |-> 0, header |-> NoHeader]
NoProbe == [pc |-> "idle", url |-> <<>>, outcome |-> NoOutcome,
            result |-> ProbeResult(FALSE, <<>>)]

\* get_expected_file_size(url, session) up to its await of the HEAD request
ProbeStart(url) ==
    /\ probe.pc = "idle"
    /\ probe' = [probe EXCEPT !.pc = "head", !.url = url]

\* The HEAD request is answered
ProbeResponse(status, header) ==
    /\ probe.pc = "head"
    /\ LET outcome == [raise |-> "none", status |-> status, header |-> header] IN
       probe' = [probe EXCEPT !.pc = "returned", !.outcome = outcome,
                              !.result = get_expected_file_size(outcome)]

\* The HEAD request raises
ProbeRaises(kind) ==
    /\ probe.pc = "head"
    /\ LET outcome == [raise |-> kind, status |-> 0, header |-> NoHeader] IN
       probe' = [probe EXCEPT !.pc = "returned", !.outcome = outcome,
                              !.result = get_expected_file_size(outcome)]

----------------------------------------------------------------------------
(* Download directory. *)

FileSize(fs, filename) == IF filename \in DOMAIN fs THEN fs[filename] ELSE 0

\* open(output_path, 'wb'): create the file or truncate it to empty
OpenTruncate(fs, filename) ==
    [x \in DOMAIN fs \cup {filename} |-> IF x = filename THEN 0 ELSE fs[x]]

\* f.write(chunk) of n bytes through a handle whose offset is pos
WriteAt(fs, filename, pos, n) ==
    [x \in DOMAIN fs \cup {filename} |->
        IF x = filename
        THEN (IF FileSize(fs, filename) > pos + n THEN FileSize(fs, filename) ELSE pos + n)
        ELSE fs[x]]

\* The buffer of the writer open(output_path, 'wb') returns: the block size
\* the file system reports for the file, io.DEFAULT_BUFFER_SIZE when it
\* reports none
BufferSizes == {4096, 8192}

\* May a write of n bytes on the writer w leave `kept` bytes in the buffer
\* after going to the file?  None when the file takes all it is given; when
\* the file takes less of a chunk larger than the buffer (a short write: the
\* disk or the size limit is nearly reached), f.write goes on only while more
\* than a buffer is left, and keeps the rest in the buffer.
MayKeep(w, n, kept) ==
    kept = 0 \/ (n > w.bufsize /\ 1 <= kept /\ kept <= w.bufsize)

\* f.write(chunk) of n bytes on the buffered writer w (pos: offset of the
\* raw handle, buffered: bytes held in the buffer): a chunk that fits in the
\* free part of the buffer stays there; otherwise the buffer is written out,
\* and after it the chunk when it is larger than the buffer, except the
\* `kept` bytes a short write leaves to the buffer.
BufferedWrite(fs, w, n, kept) ==
    IF n <= w.bufsize - w.buffered
    THEN [files |-> fs, pos |-> w.pos, buffered |-> w.buffered + n]
    ELSE LET flushed == IF w.buffered = 0 THEN fs
                        ELSE WriteAt(fs, w.filename, w.pos, w.buffered)
             at == w.pos + w.buffered
         IN  IF n > w.bufsize
             THEN [files |-> WriteAt(flushed, w.filename, at, n - kept),
                   pos |-> at + n - kept, buffered |-> kept]
             ELSE [files |-> flushed, pos |-> at, buffered |-> n]

\* May f.write(chunk) of n bytes on the writer w raise with m bytes gone to
\* the file?  It raises only when it goes to the file.  The buffer goes first:
\* when writing it out fails, the close on the way out of `with open` tries
\* again, so that any part of the buffer may end in the file.  After the
\* buffer, a chunk larger than the buffer fails while more than a buffer of
\* it is left.
MayFailAt(w, n, m) ==
    /\ n > w.bufsize - w.buffered
    /\ 0 <= m
    /\ \/ m <= w.buffered
       \/ n > w.bufsize /\ m - w.buffered < n - w.bufsize

\* Leaving `with open(...) as f`: close writes the buffer out
CloseFile(fs, w) ==
    IF w.buffered = 0 THEN fs ELSE WriteAt(fs, w.filename, w.pos, w.buffered)

\* The worker without its file handle
Closed(w) == [w EXCEPT !.buffered = 0, !.bufsize = 0]

\* is_file_complete
is_file_complete(fs, filename, expected) ==
    filename \in DOMAIN fs /\ fs[filename] = expected

----------------------------------------------------------------------------
(* One attempt of download_video: the per-chunk bookkeeping. *)

\* Faulty variant: an unknown expected size counts as incomplete
Incomplete_UnknownCounts(expected, downloaded) ==
    expected = <<>> \/ (expected[1] # 0 /\ downloaded < expected[1])

\* Faulty variant: a recorded size counts as not reached whatever was downloaded
Incomplete_SizeKnown(expected, downloaded) ==
    expected # <<>> /\ expected[1] # 0

\* `expected_size and downloaded < expected_size`
Incomplete(expected, downloaded) ==
    expected # <<>> /\ expected[1] # 0 /\ downloaded < expected[1]

\* floor(log2(k)) for k >= 1
RECURSIVE Log2(_)
Log2(k) == IF k < 2 THEN 0 ELSE 1 + Log2(k \div 2)

\* The least j with k * 2^j >= 100, for 1 <= k
RECURSIVE ShiftTo100(_)
ShiftTo100(k) == IF k >= 100 THEN 0 ELSE 1 + ShiftTo100(2 * k)

\* 2^n mod 100
RECURSIVE Pow2Mod100(_)
Pow2Mod100(n) == IF n = 0 THEN 1 ELSE (2 * Pow2Mod100(n - 1)) % 100

\* [q, rem]: quotient and remainder of r * m by t, for 0 <= r < t, computed
\* bit by bit so that nothing exceeds 3 * t
RECURSIVE MulDivMod(_, _, _)
MulDivMod(r, m, t) ==
    IF m = 0 THEN [q |-> 0, rem |-> 0]
    ELSE LET h == MulDivMod(r, m \div 2, t)
             x == 2 * h.rem + (m % 2) * r
         IN  [q |-> 2 * h.q + x \div t, rem |-> x % t]

\* (k / 100) * 100 in double precision is below the integer k.  k / 100 is
\* rounded to 53 bits, the product with 100 again: with b the exponent of
\* k / 100 and a that of k, the first rounding leaves an error of
\* -r or 100 - r units of 2^(b-52), r = k * 2^(52-b) mod 100, and the second
\* rounding, to multiples of 2^(a-b) of these units, ends below k exactly
\* when the error is under minus half of that.
FloatPercentBelow(k) ==
    k >= 1 /\
    LET a == Log2(k)
        b == IF k >= 100 THEN Log2(k \div 100) ELSE 0 - ShiftTo100(k)
        r == ((k % 100) * Pow2Mod100(52 - b)) % 100
    IN  (2 ^ (a - b)) \div 2 < r /\ r < 50

\* int((downloaded / total_size) * 100), the division and the product in
\* double precision: the exact quotient, except that a quotient that is
\* a whole number k can come out as k - 1 (29, 57, 58, 113, ...)
IntPercent(downloaded, total_size) ==
    LET whole == downloaded \div total_size
        part == MulDivMod(downloaded % total_size, 100, total_size)
        k == 100 * whole + part.q
    IN  IF part.rem = 0 /\ FloatPercentBelow(k) THEN k - 1 ELSE k

\* The timers and counters a call of download_video starts with
\* (start_time, last_speed_check, last_bytes_downloaded, last_progress_time).
NewCall(w, k) ==
    [w EXCEPT !.retry_count = k, !.since_check = 0, !.last_bytes_downloaded = 0,
              !.since_progress = 0, !.total_size = 0, !.downloaded = 0,
              !.last_progress = 0, !.stall_count = 0, !.pos = 0, !.buffered = 0,
              !.bufsize = 0]

\* time passing while the coroutine is suspended
Elapse(w, dt) ==
    [w EXCEPT !.since_check = @ + dt, !.since_progress = @ + dt]

\* speed < MIN_SPEED_BYTES_PER_SECOND at a throughput sample
SpeedTooSlow(w) ==
    (w.downloaded - w.last_bytes_downloaded) < MIN_SPEED_BYTES_PER_SECOND * w.since_check

\* Is a throughput sample taken at this chunk?
SpeedSampleDue(w) == w.since_check >= SPEED_CHECK_INTERVAL

\* Faulty variant: the stall threshold is tested with > instead of >=
SpeedMonitor_OffByOne(w, expected) ==
    IF ~SpeedSampleDue(w) THEN [w |-> w, raise |-> FALSE]
    ELSE IF SpeedTooSlow(w)
    THEN LET sc == w.stall_count + 1 IN
         IF sc > 3 /\ Incomplete(expected, w.downloaded)
         THEN [w |-> [w EXCEPT !.stall_count = sc], raise |-> TRUE]
         ELSE [w |-> [w EXCEPT !.stall_count = sc, !.since_check = 0,
                               !.last_bytes_downloaded = w.downloaded],
               raise |-> FALSE]
    ELSE [w |-> [w EXCEPT !.stall_count = 0, !.since_check = 0,
                          !.last_bytes_downloaded = w.downloaded],
          raise |-> FALSE]

\* Faulty variant: a healthy sample leaves the stall counter as it is
SpeedMonitor_NoReset(w, expected) ==
    IF ~SpeedSampleDue(w) THEN [w |-> w, raise |-> FALSE]
    ELSE IF SpeedTooSlow(w)
    THEN LET sc == w.stall_count + 1 IN
         IF sc >= 3 /\ Incomplete(expected, w.downloaded)
         THEN [w |-> [w EXCEPT !.stall_count = sc], raise |-> TRUE]
         ELSE [w |-> [w EXCEPT !.stall_count = sc, !.since_check = 0,
                               !.last_bytes_downloaded = w.downloaded],
               raise |-> FALSE]
    ELSE [w |-> [w EXCEPT !.since_check = 0, !.last_bytes_downloaded = w.downloaded],
          raise |-> FALSE]

\* Speed monitoring: [w |-> the worker after it, raise |-> a stall was raised]
SpeedMonitor(w, expected) ==
    IF ~SpeedSampleDue(w) THEN [w |-> w, raise |-> FALSE]
    ELSE IF SpeedTooSlow(w)
    THEN LET sc == w.stall_count + 1 IN
         IF sc >= 3 /\ Incomplete(expected, w.downloaded)
         THEN [w |-> [w EXCEPT !.stall_count = sc], raise |-> TRUE]
         ELSE [w |-> [w EXCEPT !.stall_count = sc, !.since_check = 0,
                               !.last_bytes_downloaded = w.downloaded],
               raise |-> FALSE]
    ELSE [w |-> [w EXCEPT !.stall_count = 0, !.since_check = 0,
                          !.last_bytes_downloaded = w.downloaded],
          raise |-> FALSE]

\* Faulty variant: exactly CHUNK_TIMEOUT without progress already counts
ProgressCheck_AtTimeout(w, expected) ==
    IF w.total_size <= 0 THEN [w |-> w, raise |-> FALSE]
    ELSE LET progress == IntPercent(w.downloaded, w.total_size) IN
         IF progress > w.last_progress
         THEN [w |-> [w EXCEPT !.last_progress = progress, !.since_progress = 0],
               raise |-> FALSE]
         ELSE IF w.since_progress >= CHUNK_TIMEOUT /\ Incomplete(expected, w.downloaded)
         THEN LET sc == w.stall_count + 1 IN
              [w |-> [w EXCEPT !.stall_count = sc], raise |-> sc >= 3]
         ELSE [w |-> w, raise |-> FALSE]

\* Progress logging and the stuck-progress check
ProgressCheck(w, expected) ==
    IF w.total_size <= 0 THEN [w |-> w, raise |-> FALSE]
    ELSE LET progress == IntPercent(w.downloaded, w.total_size) IN
         IF progress > w.last_progress
         THEN [w |-> [w EXCEPT !.last_progress = progress, !.since_progress = 0],
               raise |-> FALSE]
         ELSE IF w.since_progress > CHUNK_TIMEOUT /\ Incomplete(expected, w.downloaded)
         THEN LET sc == w.stall_count + 1 IN
              [w |-> [w EXCEPT !.stall_count = sc], raise |-> sc >= 3]
         ELSE [w |-> w, raise |-> FALSE]

\* What the loop body does with a chunk of n bytes that arrived after dt seconds:
\* [w, raise], raise one of "none", "speed", "progress"
OnChunk(w, n, dt, expected) ==
    LET w1 == [Elapse(w, dt) EXCEPT !.downloaded = @ + n]
        s  == SpeedMonitor(w1, expected)
        p  == ProgressCheck(s.w, expected)
    IN  IF s.raise THEN [w |-> s.w, raise |-> "speed"]
        ELSE IF p.raise THEN [w |-> p.w, raise |-> "progress"]
        ELSE [w |-> p.w, raise |-> "none"]

\* Faulty variant: one retry too many
MayRetry_OneMore(retry_count) == retry_count < MAX_RETRIES

\* retry_count < MAX_RETRIES - 1
MayRetry(retry_count) == retry_count < MAX_RETRIES - 1

\* Faulty variant: the delay grows linearly
BackoffDelay_Linear(retry_count) == RETRY_DELAY * (retry_count + 1)

\* retry_delay = RETRY_DELAY * (2 ** retry_count)
BackoffDelay(retry_count) == RETRY_DELAY * (2 ^ retry_count)

----------------------------------------------------------------------------
(* The download worker: download_with_semaphore and download_video. *)

NetworkErrors == {"client_error", "timeout", "chunk_timeout", "stall_speed", "stall_progress"}
Stalls == {"stall_speed", "stall_progress"}

\* A task that gather has not created yet
NoTask(url) ==
    [pc |-> "pending", url |-> url, filename |-> get_filename(url), retry_count |-> 0,
     since_check |-> 0, last_bytes_downloaded |-> 0, since_progress |-> 0,
     total_size |-> 0, downloaded |-> 0, last_progress |-> 0, stall_count |-> 0,
     pos |-> 0, buffered |-> 0, bufsize |-> 0, result |-> "none"]

NoHist ==
    [attempts |-> 0, sleeps |-> <<>>, cause |-> "none", status |-> 0, marks |-> 0,
     chunks |-> 0, received |-> 0, written |-> 0, low_streak |-> 0, lows |-> 0,
     eof |-> FALSE, open |-> FALSE, raised |-> "none"]

\* Entry of download_video(session, url, filename, retry_count = k) up to its
\* first await: the rate-limit sleep on the first attempt, the GET otherwise.
EnterCall(w, k) ==
    [NewCall(w, k) EXCEPT !.pc = IF k = 0 THEN "rate_sleep" ELSE "get"]

EnterHist(h, k) ==
    [h EXCEPT !.attempts = IF k = 0 THEN @ ELSE @ + 1,
              !.sleeps = IF k = 0 THEN Append(@, <<"rate_limit", k, RATE_LIMIT_DELAY>>) ELSE @,
              !.status = 0, !.chunks = 0, !.received = 0, !.written = 0, !.low_streak = 0,
              !.lows = 0,
              !.eof = FALSE, !.open = FALSE, !.raised = "none"]

\* return True / return False out of download_video and download_with_semaphore
Returned(w, ok) ==
    [Closed(w) EXCEPT !.pc = "returned", !.result = IF ok THEN "true" ELSE "false"]

\* Faulty variant: the worker gives up one attempt early
OnNetworkError_GivesUpEarly(w) ==
    IF w.retry_count < MAX_RETRIES - 2 THEN [Closed(w) EXCEPT !.pc = "backoff"] ELSE Returned(w, FALSE)

\* except (aiohttp.ClientError, asyncio.TimeoutError): back off and retry, or give up
OnNetworkError(w) ==
    IF MayRetry(w.retry_count) THEN [Closed(w) EXCEPT !.pc = "backoff"] ELSE Returned(w, FALSE)

OnNetworkErrorHist(w, h, kind) ==
    [h EXCEPT !.cause = kind, !.open = FALSE,
              !.sleeps = IF MayRetry(w.retry_count)
                         THEN Append(@, <<"backoff", w.retry_count, BackoffDelay(w.retry_count)>>)
                         ELSE @]

\* Faulty variant: a worker that ends on an exception keeps its semaphore slot
Release_Never(before, after) == semaphore

\* The semaphore is released when download_with_semaphore returns.
Release(before, after) ==
    IF before.pc # "returned" /\ after.pc = "returned" THEN semaphore + 1 ELSE semaphore

\* Faulty variant: download_video is called without acquiring the semaphore
TaskStart_NoAcquire(i) ==
    /\ workers[i].pc = "created"
    /\ semaphore' = semaphore
    /\ workers' = [workers EXCEPT ![i] = EnterCall(@, 0)]
    /\ hist' = [hist EXCEPT ![i] = EnterHist(@, 0)]
    /\ UNCHANGED <<ledger, sizes, worklist, limit, files, downloaded_files, video_urls, sched>>

\* download_with_semaphore starts: acquire the semaphore and call download_video
TaskStart(i) ==
    /\ workers[i].pc = "created"
    /\ semaphore > 0
    /\ semaphore' = semaphore - 1
    /\ workers' = [workers EXCEPT ![i] = EnterCall(@, 0)]
    /\ hist' = [hist EXCEPT ![i] = EnterHist(@, 0)]
    /\ UNCHANGED <<ledger, sizes, worklist, limit, files, downloaded_files, video_urls, sched>>

\* The rate-limit sleep is over: send the GET
RateLimitDone(i) ==
    /\ workers[i].pc = "rate_sleep"
    /\ workers' = [workers EXCEPT ![i] = [Elapse(@, RATE_LIMIT_DELAY) EXCEPT !.pc = "get"]]
    /\ hist' = [hist EXCEPT ![i].attempts = @ + 1]
    /\ UNCHANGED <<ledger, sizes, worklist, limit, files, downloaded_files, video_urls,
                   sched, semaphore>>

\* Faulty variant: an exception that is no network error leaves download_video,
\* and gather passes it on to download_videos, which ends there
Raise_Propagates(i, kind, dt) ==
    LET w == Elapse(workers[i], dt)
        after == IF kind \in NetworkErrors THEN OnNetworkError(w) ELSE Returned(w, FALSE)
    IN  /\ workers' = [workers EXCEPT ![i] = after]
        /\ hist' = [hist EXCEPT ![i] =
                       IF kind \in NetworkErrors THEN OnNetworkErrorHist(w, @, kind)
                       ELSE [@ EXCEPT !.cause = kind, !.open = FALSE]]
        /\ semaphore' = Release(w, after)
        /\ sched' = IF kind \in NetworkErrors THEN sched ELSE [sched EXCEPT !.pc = "raised"]

\* Faulty variant: every exception takes the retry path
Raise_RetriesAll(i, kind, dt) ==
    LET w == Elapse(workers[i], dt)
        after == OnNetworkError(w)
    IN  /\ workers' = [workers EXCEPT ![i] = after]
        /\ hist' = [hist EXCEPT ![i] = OnNetworkErrorHist(w, @, kind)]
        /\ semaphore' = Release(w, after)
        /\ UNCHANGED sched

\* An exception ends the attempt: a network error or timeout takes the retry
\* path, any other exception returns False.  The scheduler is not involved.
Raise(i, kind, dt) ==
    LET w == Elapse(workers[i], dt)
        after == IF kind \in NetworkErrors THEN OnNetworkError(w) ELSE Returned(w, FALSE)
    IN  /\ workers' = [workers EXCEPT ![i] = after]
        /\ hist' = [hist EXCEPT ![i] =
                       IF kind \in NetworkErrors THEN OnNetworkErrorHist(w, @, kind)
                       ELSE [@ EXCEPT !.cause = kind, !.open = FALSE]]
        /\ semaphore' = Release(w, after)
        /\ UNCHANGED sched

\* Is this status the one the worker streams on?
StatusOk(status) == status = 200

\* The worker after lines 148-153 on a 200 response: the declared length is
\* read, the counters are set and the destination is open with a buffer of
\* bs bytes
Streaming(w, total, at, bs) ==
    [w EXCEPT !.pc = "streaming", !.total_size = total, !.downloaded = at,
              !.last_progress = 0, !.stall_count = 0, !.pos = at, !.buffered = 0,
              !.bufsize = bs]

\* Faulty variant: a status other than 200 is raised as a client error
Response_RaiseForStatus(i, status, header, bs, dt) ==
    /\ workers[i].pc = "get"
    /\ bs \in BufferSizes
    /\ StatusOk(status) => ContentLength(header) # <<>>
    /\ LET w == Elapse(workers[i], dt) IN
       IF StatusOk(status)
       THEN /\ workers' = [workers EXCEPT ![i] =
                                Streaming(w, ContentLength(header)[1], 0, bs)]
            /\ files' = OpenTruncate(files, w.filename)
            /\ hist' = [hist EXCEPT ![i].status = status, ![i].open = TRUE]
            /\ UNCHANGED semaphore
       ELSE /\ workers' = [workers EXCEPT ![i] = OnNetworkError(w)]
            /\ hist' = [hist EXCEPT ![i] =
                           [OnNetworkErrorHist(w, @, "client_error") EXCEPT !.status = status]]
            /\ semaphore' = Release(w, OnNetworkError(w))
            /\ UNCHANGED files
    /\ UNCHANGED <<ledger, sizes, worklist, limit, downloaded_files, video_urls, sched>>

\* Faulty variant: a retry resumes after the bytes the file already holds
Response_ResumesRetry(i, status, header, bs, dt) ==
    /\ workers[i].pc = "get"
    /\ bs \in BufferSizes
    /\ StatusOk(status) => ContentLength(header) # <<>>
    /\ LET w == Elapse(workers[i], dt)
           kept == IF w.retry_count > 0 THEN FileSize(files, w.filename) ELSE 0
       IN
       IF StatusOk(status)
       THEN /\ workers' = [workers EXCEPT ![i] =
                                Streaming(w, ContentLength(header)[1], kept, bs)]
            /\ files' = IF w.retry_count > 0 /\ w.filename \in DOMAIN files THEN files
                        ELSE OpenTruncate(files, w.filename)
            /\ hist' = [hist EXCEPT ![i].status = status, ![i].open = TRUE]
            /\ UNCHANGED semaphore
       ELSE /\ workers' = [workers EXCEPT ![i] = Returned(w, FALSE)]
            /\ hist' = [hist EXCEPT ![i].status = status, ![i].cause = "http_status"]
            /\ semaphore' = semaphore + 1
            /\ UNCHANGED files
    /\ UNCHANGED <<ledger, sizes, worklist, limit, downloaded_files, video_urls, sched>>

\* Faulty variant: the destination is opened before the status is looked at
Response_OpensFirst(i, status, header, bs, dt) ==
    /\ workers[i].pc = "get"
    /\ bs \in BufferSizes
    /\ StatusOk(status) => ContentLength(header) # <<>>
    /\ files' = OpenTruncate(files, workers[i].filename)
    /\ LET w == Elapse(workers[i], dt) IN
       IF StatusOk(status)
       THEN /\ workers' = [workers EXCEPT ![i] =
                                Streaming(w, ContentLength(header)[1], 0, bs)]
            /\ hist' = [hist EXCEPT ![i].status = status, ![i].open = TRUE]
            /\ UNCHANGED semaphore
       ELSE /\ workers' = [workers EXCEPT ![i] = Returned(w, FALSE)]
            /\ hist' = [hist EXCEPT ![i].status = status, ![i].cause = "http_status"]
            /\ semaphore' = semaphore + 1
    /\ UNCHANGED <<ledger, sizes, worklist, limit, downloaded_files, video_urls, sched>>

\* The response arrives after dt seconds with this status and this
\* content-length header.  On 200 the header is a number (LengthRaises is the
\* other case) and the destination is opened; any other status returns False.
Response(i, status, header, bs, dt) ==
    /\ workers[i].pc = "get"
    /\ bs \in BufferSizes
    /\ StatusOk(status) => ContentLength(header) # <<>>
    /\ LET w == Elapse(workers[i], dt) IN
       IF StatusOk(status)
       THEN /\ workers' = [workers EXCEPT ![i] =
                                Streaming(w, ContentLength(header)[1], 0, bs)]
            /\ files' = OpenTruncate(files, w.filename)
            /\ hist' = [hist EXCEPT ![i].status = status, ![i].open = TRUE]
            /\ UNCHANGED semaphore
       ELSE /\ workers' = [workers EXCEPT ![i] = Returned(w, FALSE)]
            /\ hist' = [hist EXCEPT ![i].status = status, ![i].cause = "http_status"]
            /\ semaphore' = semaphore + 1
            /\ UNCHANGED files
    /\ UNCHANGED <<ledger, sizes, worklist, limit, downloaded_files, video_urls, sched>>

\* session.get raises after dt seconds: connection error, total timeout, or
\* something unexpected.  No response has been seen.
GetRaises(i, kind, dt) ==
    /\ workers[i].pc = "get"
    /\ kind \in {"client_error", "timeout", "unexpected"}
    /\ Raise(i, kind, dt)
    /\ UNCHANGED <<ledger, sizes, worklist, limit, files, downloaded_files, video_urls>>

\* The response arrives with status 200 and a content-length header that is
\* no number: int() raises ValueError before total_size is assigned
LengthRaises(i, header, dt) ==
    /\ workers[i].pc = "get"
    /\ ContentLength(header) = <<>>
    /\ workers' = [workers EXCEPT ![i] = Returned(Elapse(@, dt), FALSE)]
    /\ hist' = [hist EXCEPT ![i].status = 200, ![i].cause = "unexpected"]
    /\ semaphore' = semaphore + 1
    /\ UNCHANGED <<ledger, sizes, worklist, limit, files, downloaded_files, video_urls, sched>>

\* The response arrives with status 200 but open(output_path, 'wb') raises:
\* an OSError (a directory, no permission), or the OSError that is a
\* TimeoutError, which the network handler catches.  The file is not touched.
OpenRaises(i, header, kind, dt) ==
    /\ workers[i].pc = "get"
    /\ kind \in {"unexpected", "timeout"}
    /\ ContentLength(header) # <<>>
    /\ LET w == [Elapse(workers[i], dt) EXCEPT !.total_size = ContentLength(header)[1],
                                              !.downloaded = 0, !.last_progress = 0,
                                              !.stall_count = 0]
           after == IF kind \in NetworkErrors THEN OnNetworkError(w) ELSE Returned(w, FALSE)
       IN  /\ workers' = [workers EXCEPT ![i] = after]
           /\ hist' = [hist EXCEPT ![i] =
                          [(IF kind \in NetworkErrors THEN OnNetworkErrorHist(w, @, kind)
                            ELSE [@ EXCEPT !.cause = kind, !.open = FALSE])
                           EXCEPT !.status = 200]]
           /\ semaphore' = Release(w, after)
    /\ UNCHANGED <<ledger, sizes, worklist, limit, files, downloaded_files, video_urls, sched>>

\* What a chunk of n bytes that arrived after dt seconds and was written adds
\* to the history of the attempt; raised is the stall a monitor raised on it
\* (line 182: "speed", line 206: "progress"), or "none"
ChunkHist(h, w, n, dt, raised) ==
    LET t == [Elapse(w, dt) EXCEPT !.downloaded = @ + n] IN
    [h EXCEPT !.chunks = @ + 1, !.received = @ + n, !.written = @ + n,
              !.raised = raised,
              !.low_streak = IF ~SpeedSampleDue(t) THEN @
                             ELSE IF SpeedTooSlow(t) THEN @ + 1 ELSE 0,
              !.lows = IF SpeedSampleDue(t) /\ SpeedTooSlow(t) THEN @ + 1 ELSE @]

\* Faulty variant: a stall is not a timeout, it ends the download at once
ReadChunk_StallReturnsFalse(i, n, dt, kept, maxChunks) ==
    /\ workers[i].pc = "streaming"
    /\ hist[i].chunks < maxChunks
    /\ n > 0
    /\ MayKeep(workers[i], n, kept)
    /\ LET w == workers[i]
           r == OnChunk(w, n, dt, expected_size_of(sizes, w.filename))
           h == ChunkHist(hist[i], w, n, dt, r.raise)
           bw == BufferedWrite(files, w, n, kept)
           wrote == [r.w EXCEPT !.pos = bw.pos, !.buffered = bw.buffered]
           after == IF r.raise = "none" THEN wrote ELSE Returned(wrote, FALSE)
       IN  /\ files' = IF r.raise = "none" THEN bw.files ELSE CloseFile(bw.files, wrote)
           /\ workers' = [workers EXCEPT ![i] = after]
           /\ hist' = [hist EXCEPT ![i] =
                          IF r.raise = "none" THEN h
                          ELSE [h EXCEPT !.open = FALSE,
                                         !.cause = IF r.raise = "speed" THEN "stall_speed"
                                                   ELSE "stall_progress"]]
           /\ semaphore' = Release(w, after)
    /\ UNCHANGED <<ledger, sizes, worklist, limit, downloaded_files, video_urls, sched>>

\* A chunk of n bytes arrives after dt seconds and f.write takes it (kept:
\* the bytes a short write leaves to the buffer).  The monitors run; when one
\* raises a stall, the file is closed and the retry path is taken.
ReadChunk(i, n, dt, kept, maxChunks) ==
    /\ workers[i].pc = "streaming"
    /\ hist[i].chunks < maxChunks
    /\ n > 0
    /\ MayKeep(workers[i], n, kept)
    /\ LET w == workers[i]
           r == OnChunk(w, n, dt, expected_size_of(sizes, w.filename))
           h == ChunkHist(hist[i], w, n, dt, r.raise)
           bw == BufferedWrite(files, w, n, kept)
           wrote == [r.w EXCEPT !.pos = bw.pos, !.buffered = bw.buffered]
           after == IF r.raise = "none" THEN wrote ELSE OnNetworkError(wrote)
       IN  /\ files' = IF r.raise = "none" THEN bw.files ELSE CloseFile(bw.files, wrote)
           /\ workers' = [workers EXCEPT ![i] = after]
           /\ hist' = [hist EXCEPT ![i] =
                          IF r.raise = "none" THEN h
                          ELSE OnNetworkErrorHist(r.w, h, IF r.raise = "speed" THEN "stall_speed"
                                                          ELSE "stall_progress")]
           /\ semaphore' = Release(w, after)
    /\ UNCHANGED <<ledger, sizes, worklist, limit, downloaded_files, video_urls, sched>>

\* A chunk of n bytes arrives after dt seconds but f.write raises (disk full,
\* size limit, I/O error), m bytes having gone to the file by the time the
\* file is closed: an OSError, or the OSError that is a TimeoutError, which
\* takes the retry path.  The chunk is not counted (line 163 is not reached).
WriteFails(i, n, dt, m, kind, maxChunks) ==
    /\ workers[i].pc = "streaming"
    /\ hist[i].chunks < maxChunks
    /\ kind \in {"unexpected", "timeout"}
    /\ n > 0
    /\ MayFailAt(workers[i], n, m)
    /\ files' = IF m = 0 THEN files
                ELSE WriteAt(files, workers[i].filename, workers[i].pos, m)
    /\ Raise(i, kind, dt)
    /\ UNCHANGED <<ledger, sizes, worklist, limit, downloaded_files, video_urls>>

\* Faulty variant: after a chunk timeout the loop reads the next chunk
ReadRaises_RetriesChunk(i, kind, dt) ==
    /\ workers[i].pc = "streaming"
    /\ kind \in {"client_error", "timeout", "chunk_timeout", "unexpected"}
    /\ kind = "chunk_timeout" => dt = CHUNK_TIMEOUT
    /\ IF kind = "chunk_timeout"
       THEN /\ workers' = [workers EXCEPT ![i] = Elapse(@, CHUNK_TIMEOUT)]
            /\ UNCHANGED <<hist, semaphore, sched, files>>
       ELSE Raise(i, kind, dt) /\ files' = CloseFile(files, workers[i])
    /\ UNCHANGED <<ledger, sizes, worklist, limit, downloaded_files, video_urls>>

\* The chunk read raises after dt seconds: wait_for's chunk timeout (after
\* CHUNK_TIMEOUT), a timeout or a network error of the request, or something
\* unexpected.  The file is closed on the way out.
ReadRaises(i, kind, dt) ==
    /\ workers[i].pc = "streaming"
    /\ kind \in {"client_error", "timeout", "chunk_timeout", "unexpected"}
    /\ kind = "chunk_timeout" => dt = CHUNK_TIMEOUT
    /\ files' = CloseFile(files, workers[i])
    /\ Raise(i, kind, dt)
    /\ UNCHANGED <<ledger, sizes, worklist, limit, downloaded_files, video_urls>>

\* The empty read after dt seconds, whatever length was declared: the loop
\* ends, the file is closed, the filename is marked
ReadEOF(i, dt) ==
    /\ workers[i].pc = "streaming"
    /\ files' = CloseFile(files, workers[i])
    /\ ledger' = mark_as_downloaded(ledger, workers[i].filename)
    /\ workers' = [workers EXCEPT ![i] = Returned(Elapse(@, dt), TRUE)]
    /\ hist' = [hist EXCEPT ![i].eof = TRUE, ![i].open = FALSE, ![i].cause = "eof",
                            ![i].marks = @ + 1]
    /\ semaphore' = semaphore + 1
    /\ UNCHANGED <<sizes, worklist, limit, downloaded_files, video_urls, sched>>

\* Leaving `with open(...) as f` fails: the flush of close raises after m of
\* the buffered bytes, or the close itself after all of them.  The block is
\* left after the read, dt seconds long, has raised (read = <<>>), has
\* returned no bytes (<<0>>), or has returned a chunk (<<n>>) that was written
\* and on which a monitor raised a stall.  The exception of the close replaces
\* the one on its way: an OSError returns False, the OSError that is a
\* TimeoutError takes the retry path.  The filename is not marked.
CloseFails(i, read, dt, kept, m, kind, maxChunks) ==
    /\ workers[i].pc = "streaming"
    /\ kind \in {"unexpected", "timeout"}
    /\ IF read = <<>> THEN TRUE ELSE read[1] >= 0
    /\ LET w == workers[i]
           n == IF read = <<>> THEN 0 ELSE read[1]
           r == OnChunk(w, n, dt, expected_size_of(sizes, w.filename))
           bw == IF n > 0 THEN BufferedWrite(files, w, n, kept)
                 ELSE [files |-> files, pos |-> w.pos, buffered |-> w.buffered]
           wrote == [(IF n > 0 THEN r.w ELSE Elapse(w, dt))
                        EXCEPT !.pos = bw.pos, !.buffered = bw.buffered]
           h == IF n > 0 THEN ChunkHist(hist[i], w, n, dt, r.raise)
                ELSE IF read = <<0>> THEN [hist[i] EXCEPT !.eof = TRUE]
                ELSE hist[i]
           after == IF kind \in NetworkErrors THEN OnNetworkError(wrote)
                    ELSE Returned(wrote, FALSE)
       IN  /\ IF n > 0
              THEN hist[i].chunks < maxChunks /\ MayKeep(w, n, kept) /\ r.raise # "none"
              ELSE kept = 0
           /\ 0 <= m
           /\ m <= bw.buffered
           /\ files' = IF m = 0 THEN bw.files
                       ELSE WriteAt(bw.files, w.filename, bw.pos, m)
           /\ workers' = [workers EXCEPT ![i] = after]
           /\ hist' = [hist EXCEPT ![i] =
                          IF kind \in NetworkErrors THEN OnNetworkErrorHist(wrote, h, kind)
                          ELSE [h EXCEPT !.cause = kind, !.open = FALSE]]
           /\ semaphore' = Release(w, after)
    /\ UNCHANGED <<ledger, sizes, worklist, limit, downloaded_files, video_urls, sched>>

\* The empty read after dt seconds, the file is closed, but mark_as_downloaded
\* raises: at open(DOWNLOADED_FILE, 'a') (m = -1, the ledger is not touched),
\* or on leaving `with open` with m characters of the entry in the ledger
\* (open has created it).  The entry is written when the ledger is closed, and
\* a close whose first flush raises flushes once more on its way out: m is
\* any part of the entry, the whole entry included, and the exception still
\* leaves.  An OSError returns False; the OSError that is a TimeoutError takes
\* the retry path, and the next attempt marks again.
MarkFails(i, dt, m, kind) ==
    /\ workers[i].pc = "streaming"
    /\ kind \in {"unexpected", "timeout"}
    /\ LET w == Elapse(workers[i], dt)
           entry == <<"\n">> \o w.filename
           old == IF ledger.exists THEN ledger.data ELSE <<>>
           after == IF kind \in NetworkErrors THEN OnNetworkError(w) ELSE Returned(w, FALSE)
       IN  /\ m >= -1
           /\ m <= Len(entry)
           /\ ledger' = IF m < 0 THEN ledger
                        ELSE [exists |-> TRUE, data |-> old \o SubSeq(entry, 1, m)]
           /\ files' = CloseFile(files, w)
           /\ workers' = [workers EXCEPT ![i] = after]
           /\ hist' = [hist EXCEPT ![i] =
                          [(IF kind \in NetworkErrors THEN OnNetworkErrorHist(w, @, kind)
                            ELSE [@ EXCEPT !.cause = kind, !.open = FALSE])
                           EXCEPT !.eof = TRUE]]
           /\ semaphore' = Release(workers[i], after)
    /\ UNCHANGED <<sizes, worklist, limit, downloaded_files, video_urls, sched>>

\* Faulty variant: the retry sleeps the rate-limit delay again before its request
BackoffDone_RateLimited(i) ==
    /\ workers[i].pc = "backoff"
    /\ workers' = [workers EXCEPT ![i] =
                      [NewCall(@, @.retry_count + 1) EXCEPT !.pc = "rate_sleep"]]
    /\ hist' = [hist EXCEPT ![i] =
                   [EnterHist(@, workers[i].retry_count + 1) EXCEPT
                       !.attempts = hist[i].attempts,
                       !.sleeps = Append(hist[i].sleeps,
                                         <<"rate_limit", workers[i].retry_count + 1,
                                           RATE_LIMIT_DELAY>>)]]
    /\ UNCHANGED <<ledger, sizes, worklist, limit, files, downloaded_files, video_urls,
                   sched, semaphore>>

\* The backoff sleep is over: download_video calls itself with retry_count + 1
BackoffDone(i) ==
    /\ workers[i].pc = "backoff"
    /\ workers' = [workers EXCEPT ![i] = EnterCall(@, @.retry_count + 1)]
    /\ hist' = [hist EXCEPT ![i] = EnterHist(@, workers[i].retry_count + 1)]
    /\ UNCHANGED <<ledger, sizes, worklist, limit, files, downloaded_files, video_urls,
                   sched, semaphore>>

----------------------------------------------------------------------------
(* The batch scheduler: download_videos. *)

Min(a, b) == IF a < b THEN a ELSE b
Max(a, b) == IF a > b THEN a ELSE b

\* [line.strip() for line in f if line.strip()]
RECURSIVE StrippedLines(_)
StrippedLines(lines) ==
    IF lines = <<>> THEN <<>>
    ELSE IF Strip(Head(lines)) # <<>> THEN <<Strip(Head(lines))>> \o StrippedLines(Tail(lines))
    ELSE StrippedLines(Tail(lines))

\* [url for url in video_urls if is_url(url)]
RECURSIVE OnlyUrls(_)
OnlyUrls(lines) ==
    IF lines = <<>> THEN <<>>
    ELSE IF is_url(Head(lines)) THEN <<Head(lines)>> \o OnlyUrls(Tail(lines))
    ELSE OnlyUrls(Tail(lines))

\* Faulty variant: the URL, not its filename, is looked up in the completed set
RECURSIVE NotDownloaded_ByUrl(_, _)
NotDownloaded_ByUrl(urls, done) ==
    IF urls = <<>> THEN <<>>
    ELSE IF Head(urls) \notin done
         THEN <<Head(urls)>> \o NotDownloaded_ByUrl(Tail(urls), done)
    ELSE NotDownloaded_ByUrl(Tail(urls), done)

\* [url for url in video_urls if get_filename(url) not in downloaded_files]
RECURSIVE NotDownloaded(_, _)
NotDownloaded(urls, done) ==
    IF urls = <<>> THEN <<>>
    ELSE IF get_filename(Head(urls)) \notin done
         THEN <<Head(urls)>> \o NotDownloaded(Tail(urls), done)
    ELSE NotDownloaded(Tail(urls), done)

\* video_urls[:limit], limit None (<<>>) or an integer (<<n>>)
ApplyLimit(urls, lim) ==
    IF lim = <<>> THEN urls
    ELSE IF lim[1] >= 0 THEN SubSeq(urls, 1, Min(lim[1], Len(urls)))
    ELSE SubSeq(urls, 1, Max(Len(urls) + lim[1], 0))

\* The work list after the filters of lines 248-252, before the limit
NewUrls(lines, done) == NotDownloaded(OnlyUrls(StrippedLines(lines)), done)

\* The work list after filtering and truncation
FilteredUrls(lines, done, lim) ==
    LET new == NewUrls(lines, done)
    IN  IF new = <<>> THEN <<>> ELSE ApplyLimit(new, lim)

\* What download_videos logs before the first batch: the size of the completed
\* set, then "No new videos to download" or the number of videos to download
StartLog(lines, done, lim) ==
    LET new == NewUrls(lines, done) IN
    <<<<"found", Cardinality(done)>>>> \o
    (IF new = <<>> THEN <<<<"no_new", 0>>>>
     ELSE <<<<"downloading", Len(ApplyLimit(new, lim))>>>>)

\* video_urls[i:i + MAX_CONCURRENT_DOWNLOADS], as positions of video_urls (i counts from 0)
BatchAt(i, n) == {j \in 1..n : i < j /\ j <= i + MAX_CONCURRENT_DOWNLOADS}

\* asyncio.Semaphore(MAX_CONCURRENT_DOWNLOADS)
NewSemaphore == MAX_CONCURRENT_DOWNLOADS

\* for i in range(0, len(video_urls), MAX_CONCURRENT_DOWNLOADS): is there a batch at i?
HasBatchAt(i, n) == i < n

\* Faulty variant: the pacing test uses <= instead of <
PacingFollows_OrEqual(i, n) == i + MAX_CONCURRENT_DOWNLOADS <= n

\* if i + MAX_CONCURRENT_DOWNLOADS < len(video_urls): the pacing sleep follows
PacingFollows(i, n) == i + MAX_CONCURRENT_DOWNLOADS < n

\* Faulty variant: a missing ledger is an error that ends the run
StartBatch_LedgerRequired ==
    /\ sched.pc = "start"
    /\ IF ~ledger.exists
       THEN /\ sched' = [sched EXCEPT !.pc = "raised"]
            /\ UNCHANGED <<downloaded_files, video_urls, semaphore, workers, hist>>
       ELSE LET done == get_downloaded_files(ledger)
                urls == FilteredUrls(worklist, done, limit)
                n == Len(urls)
            IN  /\ downloaded_files' = done
                /\ video_urls' = urls
                /\ semaphore' = IF NewUrls(worklist, done) = <<>> THEN semaphore
                                ELSE NewSemaphore
                /\ workers' = [j \in 1..n |->
                                  [NoTask(urls[j]) EXCEPT !.pc = IF j \in BatchAt(0, n)
                                                                 THEN "created" ELSE "pending"]]
                /\ hist' = [j \in 1..n |-> NoHist]
                /\ sched' = [sched EXCEPT !.pc = IF HasBatchAt(0, n) THEN "gather"
                                                 ELSE "finished",
                                            !.log = StartLog(worklist, done, limit)]
    /\ UNCHANGED <<ledger, sizes, worklist, limit, files>>

\* download_videos from its call to the first gather: read the ledger, filter the
\* work list and return when nothing is left (line 254); otherwise apply the
\* limit, create the semaphore (also when the limit leaves no entry) and the
\* first batch's tasks
StartBatch ==
    /\ sched.pc = "start"
    /\ LET done == get_downloaded_files(ledger)
           urls == FilteredUrls(worklist, done, limit)
           n == Len(urls)
       IN  /\ downloaded_files' = done
           /\ video_urls' = urls
           /\ semaphore' = IF NewUrls(worklist, done) = <<>> THEN semaphore
                           ELSE NewSemaphore
           /\ workers' = [j \in 1..n |->
                             [NoTask(urls[j]) EXCEPT !.pc = IF j \in BatchAt(0, n)
                                                            THEN "created" ELSE "pending"]]
           /\ hist' = [j \in 1..n |-> NoHist]
           /\ sched' = [sched EXCEPT !.pc = IF HasBatchAt(0, n) THEN "gather" ELSE "finished",
                                       !.log = StartLog(worklist, done, limit)]
    /\ UNCHANGED <<ledger, sizes, worklist, limit, files>>

\* Faulty variant: the scheduler goes on when the first task of the batch returns
GatherDone_FirstCompleted ==
    /\ sched.pc = "gather"
    /\ \E j \in BatchAt(sched.i, Len(video_urls)) : workers[j].pc = "returned"
    /\ sched' = IF PacingFollows(sched.i, Len(video_urls))
                THEN [sched EXCEPT !.pc = "pacing", !.pacing = @ + 1,
                                   !.log = Append(@, <<"waiting", RATE_LIMIT_DELAY>>)]
                ELSE [sched EXCEPT !.pc = "finished"]
    /\ UNCHANGED <<ledger, sizes, worklist, limit, files, downloaded_files, video_urls,
                   semaphore, workers, hist>>

\* await asyncio.gather(*tasks) returns: sleep before the next batch, or finish
GatherDone ==
    /\ sched.pc = "gather"
    /\ \A j \in BatchAt(sched.i, Len(video_urls)) : workers[j].pc = "returned"
    /\ sched' = IF PacingFollows(sched.i, Len(video_urls))
                THEN [sched EXCEPT !.pc = "pacing", !.pacing = @ + 1,
                                   !.log = Append(@, <<"waiting", RATE_LIMIT_DELAY>>)]
                ELSE [sched EXCEPT !.pc = "finished"]
    /\ UNCHANGED <<ledger, sizes, worklist, limit, files, downloaded_files, video_urls,
                   semaphore, workers, hist>>

\* Faulty variant: the completed set is read again before each batch, and an
\* entry whose filename has been marked meanwhile is skipped
PacingDone_Refreshes ==
    /\ sched.pc = "pacing"
    /\ LET i == sched.i + MAX_CONCURRENT_DOWNLOADS
           done == get_downloaded_files(ledger)
       IN
       /\ sched' = [sched EXCEPT !.pc = "gather", !.i = i]
       /\ downloaded_files' = done
       /\ workers' = [j \in DOMAIN workers |->
                         IF j \in BatchAt(i, Len(video_urls))
                         THEN [workers[j] EXCEPT !.pc = IF workers[j].filename \in done
                                                        THEN "returned" ELSE "created"]
                         ELSE workers[j]]
    /\ UNCHANGED <<ledger, sizes, worklist, limit, files, video_urls, semaphore, hist>>

\* The pacing sleep is over: create the tasks of the next batch
PacingDone ==
    /\ sched.pc = "pacing"
    /\ LET i == sched.i + MAX_CONCURRENT_DOWNLOADS IN
       /\ sched' = [sched EXCEPT !.pc = "gather", !.i = i]
       /\ workers' = [j \in DOMAIN workers |->
                         IF j \in BatchAt(i, Len(video_urls))
                         THEN [workers[j] EXCEPT !.pc = "created"] ELSE workers[j]]
    /\ UNCHANGED <<ledger, sizes, worklist, limit, files, downloaded_files, video_urls,
                   semaphore, hist>>

----------------------------------------------------------------------------
(* Inputs. *)

URL_A == HTTP \o <<"h", "/", "a">>
URL_B == HTTPS \o <<"h", "/", "v", "/", "b">>
URL_C == HTTP \o <<"h", "/", "c">>
URL_D == HTTP \o <<"h", "/", "d">>
URL_E == HTTP \o <<"h", "/", "a", "b">>
URL_A2 == HTTP \o <<"g", "/", "a">>

MiB == CHUNK_SIZE

\* Work lists of a batch run: five URLs, and a list with a blank line, a local
\* path, padding, and a filename that occurs twice
BatchWorklists ==
    { <<URL_A, URL_B, URL_C, URL_D, URL_E>>,
      <<<<" ">>, <<"v", "/", "a">>, <<" ">> \o URL_A \o <<" ">>, URL_B, URL_A2>> }

BatchLedgers ==
    { [exists |-> FALSE, data |-> <<>>],
      [exists |-> TRUE, data |-> <<"\n", "b", "\n", " ", "d", " ">>] }

\* --limit absent, or any integer argparse's type=int accepts
BatchLimits == { <<>>, <<0>>, <<1>>, <<-1>> }

BatchStatuses == {200, 404}
BatchHeaders == {NoHeader}
BatchDelays == {0}
BatchChunkLens == {MiB}

\* A single download: statuses, declared lengths, chunk sizes and waiting times
\* around the thresholds of the stall detector
\* A first run (no ledger, empty directory), or a later one: a ledger without
\* the file, and bytes of the file left by an earlier run
DownloadStores ==
    { [ledger |-> [exists |-> FALSE, data |-> <<>>], files |-> <<>>],
      [ledger |-> [exists |-> TRUE, data |-> <<"b">>], files |-> [f \in {<<"a">>} |-> 5]] }
DownloadSizes ==
    { [exists |-> FALSE, data |-> <<>>] } \cup
    { [exists |-> TRUE, data |-> [f \in {<<"a">>} |-> n]] : n \in {0, 2 * MiB} }
DownloadStatuses == {200, 206, 404, 500}
DownloadHeaders == {NoHeader, Header(<<"2", "0", "9", "7", "1", "5", "2">>)}
DownloadDelays == {0, SPEED_CHECK_INTERVAL, CHUNK_TIMEOUT}
DownloadChunkLens == {MIN_SPEED_BYTES_PER_SECOND, MiB}
\* A chunk, the seconds it took to arrive and the bytes a short write leaves
\* to the buffer: a small or full chunk at each waiting time, a full chunk
\* always after a wait, and a full chunk of which the file takes all but 100
\* bytes
DownloadReads ==
    ({MIN_SPEED_BYTES_PER_SECOND} \X DownloadDelays \X {0})
        \cup ({MiB} \X (DownloadDelays \ {0}) \X {0})
        \cup {<<MiB, SPEED_CHECK_INTERVAL, 100>>}

\* A content-length header that int() does not read
BadHeaders == {Header(<<"a", "b", "c">>)}

\* Failures: the seconds until a request or read fails, the bytes that reach
\* the file when a write or a close fails, and the characters of a ledger
\* entry written before mark_as_downloaded fails (-1: at open)
FaultDelays == {0, SPEED_CHECK_INTERVAL}

\* A call that may use all its attempts: in these runs a write, close or
\* ledger append that fails on a time-out, and is retried, has left the file
\* and the ledger as they were (the retried append that has reached the
\* ledger is the subject of SpecRemark).
\* A write of n bytes on the writer w fails with nothing in the file, with
\* the buffer in it, or with the buffer and half of the chunk.
RetriedWrites(w, n) ==
    {<<0, "unexpected">>, <<w.buffered, "unexpected">>,
     <<w.buffered + n \div 2, "unexpected">>, <<0, "timeout">>}

\* The close fails after the read has raised, after the empty read, and after
\* a small chunk on which the throughput sample may raise a stall: with
\* nothing of the buffer in the file, or with 500 bytes of it
FailedCloses ==
    {<< <<>>, 0 >>, << <<0>>, 0 >>,
     << <<MIN_SPEED_BYTES_PER_SECOND>>, SPEED_CHECK_INTERVAL >>}
RetriedCloses == {<<0, "unexpected">>, <<500, "unexpected">>, <<0, "timeout">>}
\* The ledger append fails at the open, after the newline, or after the whole
\* entry of filename a
RetriedMarks ==
    {<<-1, "unexpected">>, <<1, "unexpected">>, <<2, "unexpected">>, <<-1, "timeout">>}

\* The buffer of the runs: the block size the file system of the download
\* directory reports
BlockSizes == {4096}

\* A batch run: a chunk write that fails halfway, a ledger append that fails
\* after the newline or after one character of the filename (the whole entry
\* of a one-character filename); in the fair run after the newline
BatchWrites(n) == {<<n \div 2, "unexpected">>}
BatchMarks == {<<1, "unexpected">>, <<2, "unexpected">>}
FairMarks == {<<1, "unexpected">>}

----------------------------------------------------------------------------
(* Specifications. *)

InitScheduler ==
    /\ downloaded_files = {}
    /\ video_urls = <<>>
    /\ sched = [pc |-> "start", i |-> 0, pacing |-> 0, log |-> <<>>]
    /\ semaphore = 0
    /\ workers = <<>>
    /\ hist = <<>>
    /\ ledger_at_start = ledger
    /\ faults = 0
    /\ probe = NoProbe

\* A batch run
Init ==
    /\ ledger \in BatchLedgers
    /\ sizes = [exists |-> FALSE, data |-> <<>>]
    /\ worklist \in BatchWorklists
    /\ limit \in BatchLimits
    /\ files = <<>>
    /\ InitScheduler

\* The environment raises at most MaxBatchFaults exceptions in a batch run.
\* download_videos and download_video never call get_expected_file_size.
Next ==
    /\ UNCHANGED <<ledger_at_start, probe>>
    /\ \/ /\ UNCHANGED faults
          /\ \/ StartBatch
             \/ GatherDone
             \/ PacingDone
             \/ \E i \in DOMAIN workers :
                 \/ TaskStart(i)
                 \/ RateLimitDone(i)
                 \/ \E status \in BatchStatuses, header \in BatchHeaders,
                        bs \in BlockSizes, dt \in BatchDelays :
                       Response(i, status, header, bs, dt)
                 \/ \E n \in BatchChunkLens, dt \in BatchDelays :
                       ReadChunk(i, n, dt, 0, MaxBatchChunks)
                 \/ \E dt \in BatchDelays : ReadEOF(i, dt)
                 \/ BackoffDone(i)
       \/ /\ faults < MaxBatchFaults
          /\ faults' = faults + 1
          /\ \E i \in DOMAIN workers :
                 \/ \E kind \in {"client_error", "unexpected"}, dt \in BatchDelays :
                       GetRaises(i, kind, dt)
                 \/ \E header \in BadHeaders, dt \in BatchDelays :
                       LengthRaises(i, header, dt)
                 \/ \E header \in BatchHeaders, dt \in BatchDelays :
                       OpenRaises(i, header, "timeout", dt)
                 \/ ReadRaises(i, "chunk_timeout", CHUNK_TIMEOUT)
                 \/ \E n \in BatchChunkLens, dt \in BatchDelays : \E f \in BatchWrites(n) :
                       WriteFails(i, n, dt, f[1], f[2], MaxBatchChunks)
                 \/ \E dt \in BatchDelays : \E f \in BatchMarks :
                       MarkFails(i, dt, f[1], f[2])

Spec == Init /\ [][Next]_vars

\* One download_video call: a batch run over a work list of one URL
InitDownload ==
    /\ \E store \in DownloadStores : ledger = store.ledger /\ files = store.files
    /\ sizes \in DownloadSizes
    /\ worklist = <<URL_A>>
    /\ limit = <<>>
    /\ InitScheduler

NextDownload ==
    /\ UNCHANGED <<faults, ledger_at_start, probe>>
    /\ \/ StartBatch
       \/ GatherDone
       \/ \E i \in DOMAIN workers :
           \/ TaskStart(i)
           \/ RateLimitDone(i)
           \/ \E status \in DownloadStatuses, header \in DownloadHeaders,
                  bs \in BlockSizes :
                 Response(i, status, header, bs, 0)
           \/ \E kind \in {"client_error", "timeout", "unexpected"}, dt \in FaultDelays :
                 GetRaises(i, kind, dt)
           \/ \E header \in BadHeaders, dt \in FaultDelays : LengthRaises(i, header, dt)
           \/ \E header \in DownloadHeaders, kind \in {"unexpected", "timeout"},
                  dt \in FaultDelays :
                 OpenRaises(i, header, kind, dt)
           \/ \E rd \in DownloadReads : ReadChunk(i, rd[1], rd[2], rd[3], MaxChunks)
           \/ \E n \in DownloadChunkLens : \E f \in RetriedWrites(workers[i], n) :
                 WriteFails(i, n, 0, f[1], f[2], MaxChunks)
           \/ ReadRaises(i, "chunk_timeout", CHUNK_TIMEOUT)
           \/ \E kind \in {"client_error", "timeout", "unexpected"} : ReadRaises(i, kind, 0)
           \/ ReadEOF(i, 0)
           \/ \E c \in FailedCloses, f \in RetriedCloses :
                 CloseFails(i, c[1], c[2], 0, f[1], f[2], MaxChunks)
           \/ \E f \in RetriedMarks : MarkFails(i, 0, f[1], f[2])
           \/ BackoffDone(i)

SpecDownload == InitDownload /\ [][NextDownload]_vars

\* One download_video call whose ledger append can fail at every point, also
\* with the whole entry written, on an error that returns False or on one that
\* is retried.  The body is one or more full chunks and arrives without error.
RemarkStatuses == {200, 404}
RemarkFaults == {<<m, kind>> : m \in {-1, 0, 1, 2}, kind \in {"unexpected", "timeout"}}

InitRemark ==
    /\ \E store \in DownloadStores : ledger = store.ledger /\ files = store.files
    /\ sizes = [exists |-> FALSE, data |-> <<>>]
    /\ worklist = <<URL_A>>
    /\ limit = <<>>
    /\ InitScheduler

NextRemark ==
    /\ UNCHANGED <<faults, ledger_at_start, probe>>
    /\ \/ StartBatch
       \/ GatherDone
       \/ \E i \in DOMAIN workers :
           \/ TaskStart(i)
           \/ RateLimitDone(i)
           \/ \E status \in RemarkStatuses, bs \in BlockSizes :
                 Response(i, status, NoHeader, bs, 0)
           \/ ReadChunk(i, MiB, 0, 0, MaxChunks)
           \/ ReadEOF(i, 0)
           \/ \E f \in RemarkFaults : MarkFails(i, 0, f[1], f[2])
           \/ BackoffDone(i)

SpecRemark == InitRemark /\ [][NextRemark]_vars

\* A batch run of two groups under the event loop's fairness: a coroutine that can run does
\* run, a sleep ends, and every request and chunk read is answered
FairWorklist == <<URL_A, URL_B, URL_C>>

InitFair ==
    /\ ledger = [exists |-> FALSE, data |-> <<>>]
    /\ sizes = [exists |-> FALSE, data |-> <<>>]
    /\ worklist = FairWorklist
    /\ limit = <<>>
    /\ files = <<>>
    /\ InitScheduler

NextFair ==
    /\ UNCHANGED <<ledger_at_start, probe>>
    /\ \/ /\ UNCHANGED faults
          /\ \/ StartBatch
             \/ GatherDone
             \/ PacingDone
             \/ \E i \in DOMAIN workers :
                 \/ TaskStart(i)
                 \/ RateLimitDone(i)
                 \/ \E status \in BatchStatuses, header \in BatchHeaders,
                        bs \in BlockSizes, dt \in BatchDelays :
                       Response(i, status, header, bs, dt)
                 \/ \E n \in BatchChunkLens, dt \in BatchDelays :
                       ReadChunk(i, n, dt, 0, MaxBatchChunks)
                 \/ \E dt \in BatchDelays : ReadEOF(i, dt)
                 \/ BackoffDone(i)
       \/ /\ faults < MaxFairFaults
          /\ faults' = faults + 1
          /\ \E i \in DOMAIN workers :
                 \/ \E kind \in {"client_error", "unexpected"}, dt \in BatchDelays :
                       GetRaises(i, kind, dt)
                 \/ \E header \in BatchHeaders, dt \in BatchDelays :
                       OpenRaises(i, header, "timeout", dt)
                 \/ ReadRaises(i, "chunk_timeout", CHUNK_TIMEOUT)
                 \/ \E dt \in BatchDelays : \E f \in FairMarks :
                       MarkFails(i, dt, f[1], f[2])

SpecFair == InitFair /\ [][NextFair]_vars /\ WF_vars(NextFair)

\* Answers to the metadata request: statuses, Content-Length headers, exceptions
ProbeUrls == {URL_A, URL_B, URL_C, URL_D, URL_E}
ProbeStatuses == {200, 206, 404, 500}
ProbeHeaders ==
    { NoHeader, Header(<<"0">>), Header(<<"5">>), Header(<<" ", "7", " ">>),
      Header(<<"-", "5">>), Header(<<"a", "b", "c">>), Header(<<>>),
      Header(<<"2", "0", "9", "7", "1", "5", "2">>),
      Header(<<"1", "_", "0">>), Header(<<"1", "_", "_", "0">>), Header(<<"_", "1">>),
      Header(<<"+", "1", "۵">>), Header(<<"০">>) }
ProbeExceptions == {"client_error", "timeout", "unexpected"}

\* Calls of get_expected_file_size on their own
InitProbe ==
    /\ ledger = [exists |-> FALSE, data |-> <<>>]
    /\ sizes = [exists |-> FALSE, data |-> <<>>]
    /\ worklist = <<>>
    /\ limit = <<>>
    /\ files = <<>>
    /\ InitScheduler

NextProbe ==
    /\ UNCHANGED <<ledger, sizes, worklist, limit, files, downloaded_files, video_urls,
                   sched, semaphore, workers, hist, ledger_at_start, faults>>
    /\ \/ \E url \in ProbeUrls : ProbeStart(url)
       \/ \E status \in ProbeStatuses, header \in ProbeHeaders : ProbeResponse(status, header)
       \/ \E kind \in ProbeExceptions : ProbeRaises(kind)

SpecProbe == InitProbe /\ [][NextProbe]_vars

\* Marking and listing: mark_as_downloaded is called on its own with the
\* filename of the one work-list entry, and a batch run that starts afterwards
\* reads the ledger and filters the work list against it.
\* URL-shaped entries: plain ones, one ending in '/', and filenames with a
\* space at the front or inside
URL_DIR == HTTP \o <<"h", "/", "d", "i", "r", "/">>
URL_PAD == HTTP \o <<"h", "/", " ", "a">>
URL_SP == HTTP \o <<"h", "/", "a", " ", "b">>

MarkUrls == {URL_A, URL_B, URL_C, URL_A2, URL_DIR, URL_PAD, URL_SP}

MarkLedgers ==
    { [exists |-> FALSE, data |-> <<>>],
      [exists |-> TRUE, data |-> <<>>],
      [exists |-> TRUE, data |-> <<"b">>],
      [exists |-> TRUE, data |-> <<"b", "\n">>],
      [exists |-> TRUE, data |-> <<"\n", "c", "\n", "d">>] }

InitMark ==
    /\ ledger \in MarkLedgers
    /\ sizes = [exists |-> FALSE, data |-> <<>>]
    /\ worklist \in {<<url>> : url \in MarkUrls}
    /\ limit = <<>>
    /\ files = <<>>
    /\ InitScheduler

\* A call of mark_as_downloaded(get_filename(url)) on its own, url the
\* stripped entry of the work list, before the batch run starts
MarkEntry ==
    /\ sched.pc = "start"
    /\ ledger = ledger_at_start
    /\ ledger' = mark_as_downloaded(ledger, get_filename(Strip(worklist[1])))
    /\ UNCHANGED <<sizes, worklist, limit, files, downloaded_files, video_urls, sched,
                   semaphore, workers, hist>>

NextMark ==
    /\ UNCHANGED <<ledger_at_start, faults, probe>>
    /\ \/ MarkEntry
       \/ StartBatch

SpecMark == InitMark /\ [][NextMark]_vars

----------------------------------------------------------------------------
(* Properties. *)

W == DOMAIN workers

\* Workers holding the concurrency budget: acquired and not yet returned
Holders == {i \in W : workers[i].pc \in {"rate_sleep", "get", "streaming", "backoff"}}

\* The backoff sleeps of a worker, in order
Backoffs(i) == SelectSeq(hist[i].sleeps, LAMBDA e : e[1] = "backoff")

\* Worker i takes a throughput sample in this step and finds the speed too low
LowSample(i) == workers[i].pc = "streaming" /\ hist'[i].low_streak > hist[i].low_streak

\* An attempt of worker i ends in this step
AttemptEnds(i) ==
    workers[i].pc \in {"get", "streaming"} /\ workers'[i].pc \in {"backoff", "returned"}

\* What leaves an attempt in place of the exception on its way when closing
\* the destination file fails: the error of the close
CloseErrors == {"timeout", "unexpected"}

\* C1: a filename is in the ledger only after its bytes are written: every
\* filename the ledger holds that it did not hold at the start of the run is the
\* filename of a worker that has read the end of the stream, has written every
\* byte it received, has closed the destination file and has marked.
C1_MarkedOnlyWhenWritten ==
    \A f \in get_downloaded_files(ledger) \ get_downloaded_files(ledger_at_start) :
        \E i \in W :
            /\ workers[i].filename = f
            /\ hist[i].marks = 1
            /\ hist[i].eof
            /\ ~hist[i].open
            /\ hist[i].written = hist[i].received
            /\ workers[i].result = "true"

\* C2: no worker exists, and no destination file is created, for a URL whose
\* filename was in the ledger when the batch run started.
C2_NoAttemptForCompleted ==
    \A f \in get_downloaded_files(ledger_at_start) :
        /\ \A i \in W : workers[i].filename # f
        /\ f \notin DOMAIN files

C2_Witness ==
    /\ sched.pc = "finished"
    /\ \E k \in 1..Len(worklist) :
          /\ is_url(Strip(worklist[k]))
          /\ get_filename(Strip(worklist[k])) \in get_downloaded_files(ledger_at_start)
    /\ \E i \in W : hist[i].attempts > 0 /\ workers[i].result = "true"

\* The whole entries of filename f among the bytes appended to the ledger
\* since the start of the run
Appended(f) ==
    LET tail == IF ledger.exists
                THEN SubSeq(ledger.data,
                            (IF ledger_at_start.exists THEN Len(ledger_at_start.data) ELSE 0) + 1,
                            Len(ledger.data))
                ELSE <<>>
        pieces == Split(tail, "\n")
    IN  Cardinality({k \in 1..Len(pieces) : pieces[k] = f})

\* C3: once a download has returned True, the destination file holds exactly
\* the bytes of the chunks received in the attempt that read the end of the
\* stream, and the filename has been appended to the ledger exactly once: the
\* ledger is the ledger of the start with one entry of the filename added.
C3_SizeAndSingleMark ==
    \A i \in W :
        workers[i].result = "true" =>
            /\ FileSize(files, workers[i].filename) = hist[i].received
            /\ workers[i].filename \in DOMAIN files
            /\ hist[i].eof
            /\ Appended(workers[i].filename) = 1

\* C4: a throughput sample that is the third (or later) consecutive low one,
\* taken while an expected size is recorded and bytes written < expected size,
\* raises the stall of line 182 and ends the attempt in that step: the worker
\* does not go on streaming.  The stall leaves the attempt as a timeout and
\* takes the retry path.  Only when closing the destination file fails in the
\* same step does the error of the close leave the attempt in its place: a
\* timeout takes the retry path as well, any other error is the unexpected
\* exception of C13 and gives the failure result.
C4_ThreeLowSamplesAbort ==
    [][\A i \in W :
        (/\ LowSample(i)
         /\ hist'[i].low_streak >= 3
         /\ workers[i].filename \in DOMAIN get_expected_sizes(sizes)
         /\ workers'[i].downloaded < get_expected_sizes(sizes)[workers[i].filename])
        => /\ AttemptEnds(i)
           /\ hist'[i].raised = "speed"
           /\ hist'[i].cause \in {"stall_speed"} \cup CloseErrors
           /\ hist'[i].cause \in NetworkErrors =>
                 /\ workers'[i].pc = IF workers[i].retry_count < MAX_RETRIES - 1
                                     THEN "backoff" ELSE "returned"
                 /\ workers'[i].result = IF workers[i].retry_count < MAX_RETRIES - 1
                                         THEN "none" ELSE "false"
           /\ hist'[i].cause \notin NetworkErrors =>
                 workers'[i].pc = "returned" /\ workers'[i].result = "false"]_vars

C4_Witness ==
    \E i \in W :
        /\ hist[i].cause = "stall_speed"
        /\ hist[i].low_streak = 3
        /\ workers[i].pc = "backoff"

\* C5: with no expected size recorded for the filename, a low throughput
\* sample leaves the worker streaming, and no attempt ends as a stall.
C5_UnknownSizeNeverStalls ==
    [][\A i \in W :
        workers[i].filename \notin DOMAIN get_expected_sizes(sizes) =>
            /\ LowSample(i) => workers'[i].pc = "streaming"
            /\ AttemptEnds(i) =>
                  hist'[i].cause \in {"eof", "chunk_timeout", "client_error", "timeout",
                                      "http_status", "unexpected"}]_vars

C5_Witness ==
    \E i \in W :
        /\ workers[i].filename \notin DOMAIN get_expected_sizes(sizes)
        /\ workers[i].pc = "streaming"
        /\ hist[i].low_streak >= 4

\* C6: a download makes at most MAX_RETRIES attempts, numbered 0..MAX_RETRIES-1.
C6_AtMostMaxRetries ==
    \A i \in W :
        /\ hist[i].attempts <= MAX_RETRIES
        /\ workers[i].retry_count \in 0..(MAX_RETRIES - 1)
        /\ workers[i].pc \in {"get", "streaming"} => hist[i].attempts = workers[i].retry_count + 1

C6_Witness ==
    \E i \in W :
        /\ hist[i].attempts = MAX_RETRIES
        /\ workers[i].result = "false"
        /\ hist[i].cause \in NetworkErrors

DefaultBackoffs == <<300, 600, 1200, 2400>>

\* C7: the j-th backoff of a download follows attempt j-1 and lasts
\* RETRY_DELAY * 2^(j-1) seconds (300, 600, 1200, 2400), and exactly one
\* backoff lies between two consecutive attempts.
C7_BackoffDoubles ==
    \A i \in W :
        LET b == Backoffs(i) IN
        /\ \A j \in 1..Len(b) :
              /\ b[j][2] = j - 1
              /\ b[j][3] = RETRY_DELAY * (2 ^ (j - 1))
              /\ b[j][3] = DefaultBackoffs[j]
        /\ workers[i].pc \in {"get", "streaming"} => Len(b) = workers[i].retry_count
        /\ workers[i].pc = "backoff" => Len(b) = workers[i].retry_count + 1

C7_Witness ==
    \E i \in W :
        /\ Len(Backoffs(i)) = 4
        /\ workers[i].pc = "get"
        /\ workers[i].retry_count = 4

\* C8: a response with a status outside 200..299 makes the worker return
\* False in the same step, with no backoff sleep started and no further
\* attempt; a worker that has returned does nothing more.
C8_BadStatusFailsAtOnce ==
    [][\A i \in W :
        /\ (/\ workers[i].pc = "get"
            /\ hist'[i].status # hist[i].status
            /\ hist'[i].status \notin 200..299)
           => /\ workers'[i].pc = "returned"
              /\ workers'[i].result = "false"
              /\ hist'[i].sleeps = hist[i].sleeps
              /\ hist'[i].attempts = hist[i].attempts
        /\ workers[i].pc = "returned" => workers'[i] = workers[i] /\ hist'[i] = hist[i]]_vars

C8_Witness ==
    \E i \in W :
        /\ workers[i].result = "false"
        /\ hist[i].status = 500
        /\ workers[i].retry_count = 2
        /\ hist[i].attempts = 3

\* C9: a network error or timeout in attempt k < MAX_RETRIES-1 puts the worker
\* into its backoff, from which the only step is attempt k+1; in attempt
\* MAX_RETRIES-1 it makes the worker return False.
C9_NetworkErrorRetries ==
    [][\A i \in W :
        /\ (AttemptEnds(i) /\ hist'[i].cause \in NetworkErrors) =>
              IF workers[i].retry_count < MAX_RETRIES - 1
              THEN /\ workers'[i].pc = "backoff"
                   /\ workers'[i].retry_count = workers[i].retry_count
                   /\ workers'[i].result = "none"
              ELSE /\ workers'[i].pc = "returned"
                   /\ workers'[i].result = "false"
        /\ (workers[i].pc = "backoff" /\ workers'[i] # workers[i]) =>
              /\ workers'[i].pc = "get"
              /\ workers'[i].retry_count = workers[i].retry_count + 1
              /\ hist'[i].attempts = hist[i].attempts + 1]_vars

C9_Witness ==
    \E i \in W :
        /\ workers[i].pc = "get"
        /\ workers[i].retry_count = 4
        /\ hist[i].cause = "client_error"

\* C10: once the semaphore exists, the workers that have acquired it and not
\* yet returned are at most MAX_CONCURRENT_DOWNLOADS, and the semaphore's
\* value is the budget they have left.
C10_ConcurrencyBounded ==
    sched.pc # "start" =>
        /\ Cardinality(Holders) <= MAX_CONCURRENT_DOWNLOADS
        /\ W # {} => semaphore = MAX_CONCURRENT_DOWNLOADS - Cardinality(Holders)

C10_Witness ==
    /\ Len(video_urls) = 5
    /\ sched.i = 2
    /\ Cardinality(Holders) = 2
    /\ \A i \in Holders : workers[i].pc = "streaming"

\* The group of a position of video_urls, counted from 0
GroupOf(j) == (j - 1) \div MAX_CONCURRENT_DOWNLOADS

\* ceil(n / c)
CeilDiv(n, c) == (n + c - 1) \div c

\* C11: a worker has a task (is past "pending") only if every worker of every
\* earlier group has returned, and the scheduler's position is the group of
\* the workers that are running.
C11_GroupsInOrder ==
    \A i \in W, j \in W :
        /\ (GroupOf(i) < GroupOf(j) /\ workers[j].pc # "pending") => workers[i].pc = "returned"
        /\ workers[j].pc \notin {"pending", "returned"} =>
              GroupOf(j) * MAX_CONCURRENT_DOWNLOADS = sched.i

C11_Witness ==
    /\ Len(video_urls) = 5
    /\ workers[5].pc = "rate_sleep"
    /\ \A i \in 1..4 : workers[i].pc = "returned"
    /\ \E i \in 1..4 : hist[i].attempts = 2

\* C12: the pacing delay has been slept once for each group already left
\* behind (and once more while the scheduler is in the pacing sleep), and when
\* the run has finished that is ceil(n / c) - 1 times for n >= 1 items.
C12_PacingBetweenGroups ==
    sched.pc # "start" =>
        /\ sched.pacing = (sched.i \div MAX_CONCURRENT_DOWNLOADS)
                              + (IF sched.pc = "pacing" THEN 1 ELSE 0)
        /\ (sched.pc = "finished" /\ Len(video_urls) >= 1) =>
              sched.pacing = CeilDiv(Len(video_urls), MAX_CONCURRENT_DOWNLOADS) - 1

C12_Witness ==
    /\ sched.pc = "finished"
    /\ Len(video_urls) = 5
    /\ sched.pacing = 2

\* C13: an exception that is neither a network error nor a timeout makes its
\* worker return False in that step and touches no other worker and not the
\* scheduler; the scheduler only ever starts, gathers, paces or finishes, and
\* when it has finished every item of the run has been handled.
C13_UnexpectedStaysInWorker ==
    [][/\ \A i \in W :
            (AttemptEnds(i) /\ hist'[i].cause = "unexpected") =>
                /\ workers'[i].pc = "returned"
                /\ workers'[i].result = "false"
                /\ \A j \in W \ {i} : workers'[j] = workers[j]
                /\ sched' = sched
       /\ sched'.pc \in {"start", "gather", "pacing", "finished"}
       /\ sched'.pc = "finished" =>
              \A j \in DOMAIN workers' : workers'[j].pc = "returned" /\ hist'[j].attempts >= 1]_vars

C13_Witness ==
    /\ sched.pc = "finished"
    /\ Len(video_urls) = 5
    /\ hist[1].cause = "unexpected"
    /\ workers[1].result = "false"
    /\ \A j \in 2..5 : workers[j].result = "true"

\* C14: a worker that has returned False has appended nothing to the ledger,
\* and its filename is not in the completed set, so that the next run selects
\* it again.
C14_FailedLeftUnmarked ==
    \A i \in W :
        workers[i].result = "false" =>
            /\ hist[i].marks = 0
            /\ workers[i].filename \notin get_downloaded_files(ledger)
            /\ \E k \in 1..Len(FilteredUrls(worklist, get_downloaded_files(ledger), limit)) :
                  FilteredUrls(worklist, get_downloaded_files(ledger), limit)[k] = workers[i].url

\* C15: no two workers have the same destination file open at the same time.
C15_ExclusiveDestination ==
    \A i \in W, j \in W :
        (i # j /\ hist[i].open /\ hist[j].open) => workers[i].filename # workers[j].filename

\* The bytes of the ledger the run found, and the bytes appended since
LedgerBefore == IF ledger_at_start.exists THEN ledger_at_start.data ELSE <<>>
LedgerNow == IF ledger.exists THEN ledger.data ELSE <<>>
LedgerTail == SubSeq(LedgerNow, Len(LedgerBefore) + 1, Len(LedgerNow))

\* The bytes appended so far are whole entries, a newline and a filename each,
\* one for every mark of a worker
WholeEntries ==
    /\ Len(LedgerNow) >= Len(LedgerBefore)
    /\ SubSeq(LedgerNow, 1, Len(LedgerBefore)) = LedgerBefore
    /\ LedgerTail # <<>> =>
          LET pieces == Split(LedgerTail, "\n") IN
          /\ pieces[1] = <<>>
          /\ \A k \in 2..Len(pieces) : \E i \in W : pieces[k] = workers[i].filename
          /\ \A i \in W :
                Cardinality({k \in 2..Len(pieces) : pieces[k] = workers[i].filename})
                  = Cardinality({j \in W : /\ workers[j].filename = workers[i].filename
                                           /\ hist[j].marks = 1})
    /\ LedgerTail = <<>> => \A i \in W : hist[i].marks = 0

\* One step appends at most one entry, and the whole of it, for the one worker
\* that returns True in that step
WholeAppend ==
    LedgerNow' # LedgerNow =>
        \E i \in W :
            /\ ledger' = [exists |-> TRUE,
                          data |-> LedgerNow \o <<"\n">> \o workers[i].filename]
            /\ workers[i].pc = "streaming"
            /\ workers'[i].result = "true"
            /\ hist'[i].marks = hist[i].marks + 1
            /\ \A j \in W \ {i} : workers'[j] = workers[j] /\ hist'[j] = hist[j]

\* C16: ledger appends never interleave: every append is one whole entry
\* written within one step of one worker, and the ledger is always the bytes
\* found at start followed by whole filename entries.
C16_LedgerWritesSerialized == []WholeEntries /\ [][WholeAppend]_vars

\* Worker i, streaming, counts a stall in this step that is the third or later
\* of the attempt while an expected size is recorded and not yet reached: the
\* condition of both `raise asyncio.TimeoutError("Download stalled ...")`
StallDetected(i) ==
    /\ workers[i].pc = "streaming"
    /\ workers'[i].stall_count > workers[i].stall_count
    /\ workers'[i].stall_count >= 3
    /\ workers[i].filename \in DOMAIN get_expected_sizes(sizes)
    /\ get_expected_sizes(sizes)[workers[i].filename] # 0
    /\ workers'[i].downloaded < get_expected_sizes(sizes)[workers[i].filename]

\* C17: a stall found by the throughput sample or by the stuck-progress check
\* is raised (line 182 or 206) and ends the attempt as a timeout; in attempt
\* k < MAX_RETRIES-1 the worker sleeps RETRY_DELAY * 2^k and then makes
\* attempt k+1, in attempt MAX_RETRIES-1 it returns False.  Nothing is marked.
\* Only when closing the destination file fails in the step of the stall does
\* the error of the close leave the attempt in its place: a timeout follows
\* the same retry policy, any other error is the unexpected exception of C13
\* and returns False without a sleep.
C17_StallFeedsRetryPolicy ==
    [][\A i \in W :
        LET k == workers[i].retry_count IN
        /\ (StallDetected(i) \/ (AttemptEnds(i) /\ hist'[i].cause \in Stalls)) =>
              /\ AttemptEnds(i)
              /\ hist'[i].raised \in {"speed", "progress"}
              /\ hist'[i].cause \in Stalls \cup CloseErrors
              /\ hist'[i].cause = "stall_speed" => hist'[i].raised = "speed"
              /\ hist'[i].cause = "stall_progress" => hist'[i].raised = "progress"
              /\ ~hist'[i].open
              /\ ledger' = ledger
              /\ IF hist'[i].cause \in NetworkErrors /\ k < MAX_RETRIES - 1
                 THEN /\ workers'[i].pc = "backoff"
                      /\ workers'[i].result = "none"
                      /\ workers'[i].retry_count = k
                      /\ hist'[i].sleeps = Append(hist[i].sleeps, <<"backoff", k, RETRY_DELAY * (2 ^ k)>>)
                 ELSE /\ workers'[i].pc = "returned"
                      /\ workers'[i].result = "false"
                      /\ hist'[i].sleeps = hist[i].sleeps
        /\ (workers[i].pc = "backoff" /\ hist[i].cause \in Stalls /\ workers'[i] # workers[i]) =>
              /\ workers'[i].pc = "get"
              /\ workers'[i].retry_count = k + 1
              /\ hist'[i].attempts = hist[i].attempts + 1]_vars

C17_Witness ==
    \E i \in W :
        /\ workers[i].pc = "returned"
        /\ workers[i].result = "false"
        /\ workers[i].retry_count = MAX_RETRIES - 1
        /\ hist[i].cause = "stall_progress"
        /\ Len(Backoffs(i)) = MAX_RETRIES - 1
        /\ hist[i].attempts = MAX_RETRIES

\* The workers of the run are the items of its list, and all are attempted by the end
FixedAtStart ==
    sched.pc # "start" =>
        /\ Len(workers) = Len(video_urls)
        /\ \A j \in W : workers[j].url = video_urls[j]
        /\ sched.pc = "finished" => \A j \in W : hist[j].attempts >= 1

\* The step that leaves the start reads the completed set from the ledger found
\* at start and filters the work list with it
ReadAtStart ==
    (sched.pc = "start" /\ sched'.pc # "start") =>
        /\ downloaded_files' = get_downloaded_files(ledger_at_start)
        /\ video_urls' = FilteredUrls(worklist, get_downloaded_files(ledger_at_start), limit)

\* C18: the completed set is the one read from the ledger when the run started
\* and never changes afterwards, the list of items to attempt is fixed with
\* it, and every item of that list is attempted although its filename may
\* have been appended to the ledger since.
C18_CompletedSetReadOnce ==
    /\ []FixedAtStart
    /\ [][ReadAtStart]_vars
    /\ [][sched.pc # "start" =>
             /\ downloaded_files' = downloaded_files
             /\ video_urls' = video_urls
             /\ \A j \in W : workers'[j].url = workers[j].url
             /\ \A j \in W : (workers[j].pc = "pending" /\ workers'[j].pc # "pending")
                                => workers'[j].pc = "created"]_vars

C18_Witness ==
    \E i \in W, j \in W :
        /\ GroupOf(j) < GroupOf(i)
        /\ workers[j].filename = workers[i].filename
        /\ hist[j].marks = 1
        /\ workers[i].filename \in get_downloaded_files(ledger)
        /\ workers[i].filename \notin downloaded_files
        /\ hist[i].attempts >= 1
        /\ hist[i].open

\* C19: no step of a run (a download that succeeds, fails, is retried or is
\* cut short by an exception, a scheduler step) removes a filename from the
\* set get_downloaded_files returns, removes the ledger or changes a byte it holds.
C19_LedgerOnlyGrows ==
    [][/\ get_downloaded_files(ledger) \subseteq get_downloaded_files(ledger')
       /\ ledger.exists => ledger'.exists
       /\ Len(LedgerNow) <= Len(LedgerNow')
       /\ SubSeq(LedgerNow', 1, Len(LedgerNow)) = LedgerNow]_vars

C19_Witness ==
    /\ sched.pc = "finished"
    /\ get_downloaded_files(ledger_at_start) # {}
    /\ get_downloaded_files(ledger_at_start) \subseteq get_downloaded_files(ledger)
    /\ get_downloaded_files(ledger) # get_downloaded_files(ledger_at_start)
    /\ \E i \in W : workers[i].result = "false"

\* C20: marking a filename a second time leaves the completed set as it was
\* after the first mark, while the ledger holds the entry twice: both for the
\* marks the workers make and for mark_as_downloaded applied twice to the
\* ledger of any reachable state in which a worker is about to mark.
C20_MarkIdempotent ==
    /\ [](\A i \in W :
            workers[i].pc = "streaming" =>
                LET f == workers[i].filename
                    once == mark_as_downloaded(ledger, f)
                    twice == mark_as_downloaded(once, f)
                IN  /\ get_downloaded_files(twice) = get_downloaded_files(once)
                    /\ twice.data = once.data \o <<"\n">> \o f)
    /\ [][\A i \in W :
            (/\ hist'[i].marks > hist[i].marks
             /\ \E j \in W \ {i} : workers[j].filename = workers[i].filename /\ hist[j].marks >= 1)
            => /\ get_downloaded_files(ledger') = get_downloaded_files(ledger)
               /\ ledger' # ledger]_vars

C20_Witness ==
    \E i \in W, j \in W :
        /\ i # j
        /\ workers[i].filename = workers[j].filename
        /\ hist[i].marks = 1 /\ hist[j].marks = 1
        /\ Len(LedgerTail) = 2 * (1 + Len(workers[i].filename))

\* C21: with no ledger file the completed set is empty and the run goes on
\* with every URL of the work list; with no sizes file the mapping is empty,
\* every filename has unknown expected size and no attempt ends as a stall.
C21_MissingStoresAreEmpty ==
    /\ ~ledger_at_start.exists =>
          /\ get_downloaded_files(ledger_at_start) = {}
          /\ sched.pc # "start" =>
                /\ sched.pc \in {"gather", "pacing", "finished"}
                /\ downloaded_files = {}
                /\ video_urls = ApplyLimit(OnlyUrls(StrippedLines(worklist)), limit)
    /\ ~sizes.exists =>
          /\ DOMAIN get_expected_sizes(sizes) = {}
          /\ \A i \in W :
                /\ expected_size_of(sizes, workers[i].filename) = <<>>
                /\ hist[i].cause \notin Stalls

C21_Witness ==
    /\ ~ledger_at_start.exists
    /\ ~sizes.exists
    /\ \E i \in W :
          /\ hist[i].low_streak >= 3
          /\ workers[i].stall_count >= 3
          /\ workers[i].result = "true"

\* The characters of s after its last "/", the whole of s when it has none
RECURSIVE LastSegment(_)
LastSegment(s) ==
    IF s = <<>> \/ s[Len(s)] = "/" THEN <<>>
    ELSE Append(LastSegment(SubSeq(s, 1, Len(s) - 1)), s[Len(s)])

\* Is the stripped line t a URL the run has to download?
Wanted(t) ==
    /\ t # <<>>
    /\ \/ (Len(t) >= 7 /\ SubSeq(t, 1, 7) = <<"h", "t", "t", "p", ":", "/", "/">>)
       \/ (Len(t) >= 8 /\ SubSeq(t, 1, 8) = <<"h", "t", "t", "p", "s", ":", "/", "/">>)
    /\ LastSegment(t) \notin get_downloaded_files(ledger_at_start)

\* The wanted lines of the work list, stripped, in work-list order
RECURSIVE WantedFrom(_)
WantedFrom(lines) ==
    IF lines = <<>> THEN <<>>
    ELSE (IF Wanted(Strip(Head(lines))) THEN <<Strip(Head(lines))>> ELSE <<>>)
         \o WantedFrom(Tail(lines))

\* C22: the workers of a run without limit are, in order, the work-list lines
\* that are non-blank, start with http:// or https:// and whose last path
\* segment is not in the completed set; with a limit they are some of
\* these.  All of them, and nothing else, are attempted by the end of the run.
C22_AttemptsExactlyWantedLines ==
    sched.pc # "start" =>
        LET wanted == WantedFrom(worklist)
            urls == [j \in 1..Len(workers) |-> workers[j].url]
        IN  /\ limit = <<>> => urls = wanted
            /\ \A j \in W : \E k \in 1..Len(wanted) : wanted[k] = urls[j]
            /\ \A j \in W : workers[j].filename = LastSegment(workers[j].url)
            /\ \A j \in W : hist[j].attempts >= 1 => workers[j].pc # "pending"
            /\ sched.pc = "finished" => \A j \in W : hist[j].attempts >= 1

C22_Witness ==
    /\ sched.pc = "finished"
    /\ limit = <<>>
    /\ \E k \in 1..Len(worklist) : Strip(worklist[k]) = <<>>
    /\ \E k \in 1..Len(worklist) : Strip(worklist[k]) # <<>> /\ ~is_url(Strip(worklist[k]))
    /\ \E k \in 1..Len(worklist) : worklist[k] # Strip(worklist[k]) /\ Wanted(Strip(worklist[k]))
    /\ \E k \in 1..Len(worklist) :
          is_url(worklist[k]) /\ get_filename(worklist[k]) \in downloaded_files
    /\ Len(workers) = 2

\* C23: with a limit the run has at most `limit` workers, and they are the
\* first `limit` lines of the filtered work list.
C23_LimitBoundsAttempts ==
    (limit # <<>> /\ sched.pc # "start") =>
        LET wanted == WantedFrom(worklist) IN
        /\ Len(workers) <= limit[1]
        /\ Len(workers) = (IF limit[1] < Len(wanted) THEN limit[1] ELSE Len(wanted))
        /\ \A j \in W : workers[j].url = wanted[j]

\* C24: a worker that has streamed a chunk has an expected size for its
\* filename: the one cached in the sizes file, or one from a probe of its URL.
C24_WorkerConsultsProber ==
    \A i \in W :
        hist[i].chunks >= 1 =>
            \/ workers[i].filename \in DOMAIN get_expected_sizes(sizes)
            \/ probe.pc # "idle" /\ probe.url = workers[i].url

\* The length the Content-Length headers of the inputs declare
DeclaredLength(header) ==
    IF header = Header(<<"5">>) THEN 5
    ELSE IF header = Header(<<" ", "7", " ">>) THEN 7
    ELSE IF header = Header(<<"2", "0", "9", "7", "1", "5", "2">>) THEN 2 * MiB
    ELSE IF header = Header(<<"-", "5">>) THEN 0 - 5
    ELSE IF header = Header(<<"1", "_", "0">>) THEN 10
    ELSE IF header = Header(<<"+", "1", "۵">>) THEN 15
    ELSE 0

\* C25: a call of get_expected_file_size that has returned has raised nothing;
\* it has returned the declared length when the request was answered with
\* status 200 and a positive length, and None after any other status, a
\* missing, zero or unreadable length, or an exception of the request.
C25_ProbeReturnsLengthOrNone ==
    probe.pc = "returned" =>
        /\ ~probe.result.raised
        /\ IF /\ probe.outcome.raise = "none"
              /\ probe.outcome.status = 200
              /\ DeclaredLength(probe.outcome.header) > 0
           THEN probe.result.value = <<DeclaredLength(probe.outcome.header)>>
           ELSE probe.result.value = <<>>

C25_Witness ==
    /\ probe.pc = "returned"
    /\ probe.outcome.status = 200
    /\ probe.outcome.header = Header(<<" ", "7", " ">>)
    /\ probe.result = ProbeResult(FALSE, <<7>>)

\* C26: when download_videos has finished, it has logged a summary that holds
\* the number of its items that returned failure.
C26_FailuresTallied ==
    (sched.pc = "finished" /\ workers # <<>>) =>
        \E k \in 1..Len(sched.log) :
            /\ sched.log[k][1] = "summary"
            /\ sched.log[k][2] = Cardinality({i \in W : workers[i].result = "false"})

\* C27: a chunk read that times out ends the attempt in that step, with no
\* chunk written (the file is closed with the bytes of the chunks before); in attempt k < MAX_RETRIES-1 the worker sleeps
\* RETRY_DELAY * 2^k and then makes attempt k+1, in attempt MAX_RETRIES-1 it
\* returns False.  A worker that goes on streaming has read a chunk, and
\* chunks are read only while streaming.
C27_ChunkTimeoutEndsAttempt ==
    [][\A i \in W :
        LET k == workers[i].retry_count IN
        /\ (AttemptEnds(i) /\ hist'[i].cause = "chunk_timeout") =>
              /\ workers[i].pc = "streaming"
              /\ hist'[i].chunks = hist[i].chunks
              /\ hist'[i].written = hist[i].written
              /\ ~hist'[i].open
              /\ files' = CloseFile(files, workers[i])
              /\ ledger' = ledger
              /\ IF k < MAX_RETRIES - 1
                 THEN /\ workers'[i].pc = "backoff"
                      /\ workers'[i].result = "none"
                      /\ workers'[i].retry_count = k
                      /\ hist'[i].sleeps = Append(hist[i].sleeps, <<"backoff", k, RETRY_DELAY * (2 ^ k)>>)
                 ELSE /\ workers'[i].pc = "returned"
                      /\ workers'[i].result = "false"
                      /\ hist'[i].sleeps = hist[i].sleeps
        /\ (workers[i].pc = "streaming" /\ workers'[i].pc = "streaming"
              /\ workers'[i] # workers[i]) =>
              /\ hist'[i].chunks = hist[i].chunks + 1
              /\ workers'[i].downloaded > workers[i].downloaded
        /\ hist'[i].chunks > hist[i].chunks => workers[i].pc = "streaming"
        /\ (workers[i].pc = "backoff" /\ hist[i].cause = "chunk_timeout"
              /\ workers'[i] # workers[i]) =>
              /\ workers'[i].pc = "get"
              /\ workers'[i].retry_count = k + 1
              /\ hist'[i].attempts = hist[i].attempts + 1
              /\ hist'[i].chunks = 0]_vars

C27_Witness ==
    \E i \in W :
        /\ workers[i].pc = "returned"
        /\ workers[i].result = "false"
        /\ workers[i].retry_count = MAX_RETRIES - 1
        /\ hist[i].cause = "chunk_timeout"
        /\ hist[i].chunks >= 1
        /\ Len(Backoffs(i)) = MAX_RETRIES - 1

\* Worker i reads a chunk in this step
ChunkRead(i) == workers[i].pc = "streaming" /\ hist'[i].chunks = hist[i].chunks + 1

\* The chunk read in this step came with a throughput sample that found the
\* speed healthy: the sample's reference point moves to the bytes downloaded
HealthySample(i) ==
    /\ ChunkRead(i)
    /\ ~LowSample(i)
    /\ workers'[i].last_bytes_downloaded = workers'[i].downloaded

\* The chunk read in this step is a stuck-progress signal: a total size is
\* declared, more than CHUNK_TIMEOUT has passed without a new integer percent,
\* and the expected size is recorded and not reached
StuckSignal(i) ==
    /\ ChunkRead(i)
    /\ workers[i].total_size > 0
    /\ workers'[i].since_progress > CHUNK_TIMEOUT
    /\ workers[i].filename \in DOMAIN get_expected_sizes(sizes)
    /\ get_expected_sizes(sizes)[workers[i].filename] # 0
    /\ workers'[i].downloaded < get_expected_sizes(sizes)[workers[i].filename]

\* The throughput sample of the chunk read in this step raises the stall of
\* line 182, which ends the attempt before the stuck-progress check
SpeedStall(i) == ChunkRead(i) /\ AttemptEnds(i) /\ hist'[i].raised = "speed"

\* C28: a low throughput sample adds one to the stall counter, a healthy one
\* sets it to zero, and apart from the stuck-progress signal of the same chunk
\* nothing else changes it: the counter is the number of unhealthy signals
\* since the last healthy sample of the attempt, never less than the current
\* run of low samples.
C28_StallCounterFollowsSamples ==
    [][\A i \in W :
        LET sc == workers[i].stall_count
            stuck == IF StuckSignal(i) /\ ~SpeedStall(i) THEN 1 ELSE 0
        IN
        /\ ChunkRead(i) =>
              /\ LowSample(i) => workers'[i].stall_count = sc + 1 + stuck
              /\ HealthySample(i) => workers'[i].stall_count = stuck
              /\ (~LowSample(i) /\ ~HealthySample(i)) => workers'[i].stall_count = sc + stuck
              /\ workers'[i].stall_count >= hist'[i].low_streak
        /\ (workers[i].pc = "get" /\ workers'[i].pc = "streaming") =>
              workers'[i].stall_count = 0]_vars

C28_Witness ==
    \E i \in W :
        /\ workers[i].pc = "streaming"
        /\ hist[i].chunks = 4
        /\ hist[i].received = 3 * MIN_SPEED_BYTES_PER_SECOND + MiB
        /\ hist[i].lows = 3
        /\ hist[i].low_streak = 1
        /\ workers[i].stall_count = 1
        /\ workers[i].last_bytes_downloaded = workers[i].downloaded
        /\ expected_size_of(sizes, workers[i].filename) = <<2 * MiB>>

\* C29: an attempt that ends in the step in which it has read and written a
\* chunk ends on a stall raised by a monitor, and then the stall counter is at
\* least 3, an expected size is recorded for the filename and the bytes
\* written are fewer; a worker whose bytes written have reached the recorded
\* size goes on streaming whatever the counter is.  (The stall leaves the
\* attempt unless closing the destination file fails in the same step.)
C29_StallOnlyWhenIncomplete ==
    [][\A i \in W :
        /\ (ChunkRead(i) /\ AttemptEnds(i)) =>
              /\ hist'[i].raised \in {"speed", "progress"}
              /\ hist'[i].cause \in Stalls \cup CloseErrors
              /\ workers'[i].stall_count >= 3
              /\ workers[i].filename \in DOMAIN get_expected_sizes(sizes)
              /\ workers'[i].downloaded < get_expected_sizes(sizes)[workers[i].filename]
              /\ hist'[i].written = workers'[i].downloaded
        /\ (AttemptEnds(i) /\ hist'[i].cause \in Stalls) => ChunkRead(i)
        /\ (ChunkRead(i) /\ ~AttemptEnds(i)) => hist'[i].raised = "none"
        /\ (/\ ChunkRead(i)
            /\ workers[i].filename \in DOMAIN get_expected_sizes(sizes)
            /\ workers'[i].downloaded >= get_expected_sizes(sizes)[workers[i].filename])
           => workers'[i].pc = "streaming"]_vars

C29_Witness ==
    \E i \in W :
        /\ workers[i].pc = "streaming"
        /\ workers[i].stall_count >= 3
        /\ hist[i].low_streak >= 3
        /\ expected_size_of(sizes, workers[i].filename) = <<2 * MiB>>
        /\ workers[i].downloaded >= 2 * MiB
        /\ hist[i].written = workers[i].downloaded

\* The stall counter after the throughput sample of the chunk read in this step
AfterSample(i) ==
    IF LowSample(i) THEN workers[i].stall_count + 1
    ELSE IF HealthySample(i) THEN 0
    ELSE workers[i].stall_count

\* The chunk read in this step brings no new integer percent of the declared
\* total, and the last one is more than CHUNK_TIMEOUT ago
NoProgressTooLong(i) ==
    /\ workers[i].total_size > 0
    /\ (workers'[i].downloaded * 100) \div workers[i].total_size <= workers[i].last_progress
    /\ workers[i].since_progress
         + (workers'[i].since_progress - workers[i].since_progress) > CHUNK_TIMEOUT
    /\ workers'[i].since_progress > CHUNK_TIMEOUT

\* C30: a chunk that arrives with a declared total, no new integer percent and
\* more than CHUNK_TIMEOUT since the last one adds one to the stall counter of
\* the throughput check when an expected size is recorded and not reached,
\* and the attempt ends on the stall of line 206 exactly when the counter is
\* then 3 or more; any other chunk leaves the counter as the throughput sample
\* set it.  (The stall leaves the attempt unless closing the destination file
\* fails in the same step.)
C30_StuckProgressFeedsCounter ==
    [][\A i \in W :
        (ChunkRead(i) /\ ~SpeedStall(i)) =>
            IF /\ NoProgressTooLong(i)
               /\ workers[i].filename \in DOMAIN get_expected_sizes(sizes)
               /\ get_expected_sizes(sizes)[workers[i].filename] # 0
               /\ workers'[i].downloaded < get_expected_sizes(sizes)[workers[i].filename]
            THEN /\ workers'[i].stall_count = AfterSample(i) + 1
                 /\ IF workers'[i].stall_count >= 3
                    THEN /\ AttemptEnds(i)
                         /\ hist'[i].raised = "progress"
                         /\ hist'[i].cause \in {"stall_progress"} \cup CloseErrors
                    ELSE workers'[i].pc = "streaming"
            ELSE /\ workers'[i].stall_count = AfterSample(i)
                 /\ workers'[i].pc = "streaming"]_vars

C30_Witness ==
    \E i \in W :
        /\ workers[i].pc = "backoff"
        /\ hist[i].cause = "stall_progress"
        /\ workers[i].stall_count = 3
        /\ hist[i].lows = 2
        /\ hist[i].chunks = 2
        /\ workers[i].total_size = 2 * MiB

\* C31: the sleeps of a worker are the rate-limit delay, once and first, and
\* then the backoff of attempt 0, 1, ... in order; while it sleeps the
\* rate-limit delay the worker has sent no request, and attempt k >= 1 has
\* exactly k backoffs and no other sleep behind it.
C31_RateLimitOnceBeforeFirst ==
    \A i \in W :
        LET sl == hist[i].sleeps
            w == workers[i]
        IN  /\ w.pc \in {"pending", "created"} => (sl = <<>> /\ hist[i].attempts = 0)
            /\ w.pc \notin {"pending", "created"} =>
                  /\ Len(sl) >= 1
                  /\ sl[1] = <<"rate_limit", 0, RATE_LIMIT_DELAY>>
                  /\ \A k \in 2..Len(sl) : sl[k] = <<"backoff", k - 2, RETRY_DELAY * (2 ^ (k - 2))>>
            /\ w.pc = "rate_sleep" =>
                  (w.retry_count = 0 /\ hist[i].attempts = 0 /\ hist[i].status = 0 /\ Len(sl) = 1)
            /\ w.pc \in {"get", "streaming"} =>
                  (hist[i].attempts = w.retry_count + 1 /\ Len(sl) = w.retry_count + 1)
            /\ w.pc = "backoff" =>
                  (hist[i].attempts = w.retry_count + 1 /\ Len(sl) = w.retry_count + 2)

C31_Witness ==
    \E i \in W :
        /\ workers[i].pc = "get"
        /\ workers[i].retry_count = MAX_RETRIES - 1
        /\ Len(hist[i].sleeps) = MAX_RETRIES
        /\ hist[i].sleeps[1][1] = "rate_limit"
        /\ hist[i].sleeps[MAX_RETRIES][1] = "backoff"

\* C32: when an attempt starts streaming, its destination file exists and is
\* empty and its bytes-written, progress and stall counters are 0; while it
\* streams, the file and the writer's buffer hold exactly the bytes this attempt
\* has written.
C32_RetryStartsFromZero ==
    /\ [][\A i \in W :
            (workers[i].pc = "get" /\ workers'[i].pc = "streaming") =>
                /\ workers[i].filename \in DOMAIN files'
                /\ files'[workers[i].filename] = 0
                /\ workers'[i].downloaded = 0
                /\ workers'[i].pos = 0
                /\ workers'[i].buffered = 0
                /\ workers'[i].last_progress = 0
                /\ workers'[i].stall_count = 0
                /\ hist'[i].written = 0
                /\ hist'[i].chunks = 0
                /\ hist'[i].lows = 0]_vars
    /\ [](\A i \in W :
            workers[i].pc = "streaming" =>
                /\ FileSize(files, workers[i].filename) = workers[i].pos
                /\ workers[i].pos + workers[i].buffered = workers[i].downloaded
                /\ hist[i].written = workers[i].downloaded)

C32_Witness ==
    \E i \in W :
        /\ workers[i].pc = "streaming"
        /\ workers[i].retry_count >= 1
        /\ hist[i].cause = "stall_speed"
        /\ hist[i].chunks = 0
        /\ workers[i].filename \in DOMAIN files
        /\ files[workers[i].filename] = 0
        /\ workers[i].stall_count = 0

\* C33: every batch run comes to its end: download_videos finishes, all its
\* groups have run and every worker has returned True or False.
C33_Terminates ==
    <>(/\ sched.pc = "finished"
       /\ Len(workers) = Len(FairWorklist)
       /\ \A i \in W : workers[i].pc = "returned" /\ workers[i].result \in {"true", "false"})

C33_Witness ==
    /\ sched.pc = "finished"
    /\ sched.i = MAX_CONCURRENT_DOWNLOADS
    /\ \E i \in W :
          /\ workers[i].result = "false"
          /\ workers[i].retry_count = MAX_RETRIES - 1
          /\ hist[i].attempts = MAX_RETRIES
    /\ \E i \in W : workers[i].result = "true"

\* C34: a worker that has appended its filename to the ledger, with an expected
\* size recorded for it, has written exactly that many bytes to its
\* destination: is_file_complete would return true.
C34_MarkedIsComplete ==
    \A i \in W :
        LET expected_size == expected_size_of(sizes, workers[i].filename) IN
        (hist[i].marks >= 1 /\ expected_size # <<>>) =>
            /\ hist[i].written = expected_size[1]
            /\ is_file_complete(files, workers[i].filename, expected_size[1])

\* C35: once a filename is in the ledger its destination file is left alone:
\* no worker opens (creates or truncates) it and no worker writes to it, so
\* its size stays what it was.
C35_MarkedFileIsStable ==
    [][\A f \in get_downloaded_files(ledger) :
          /\ (f \in DOMAIN files) = (f \in DOMAIN files')
          /\ FileSize(files', f) = FileSize(files, f)
          /\ \A i \in DOMAIN workers :
                workers[i].filename = f =>
                    /\ ~(hist'[i].open /\ ~hist[i].open)
                    /\ hist'[i].written <= hist[i].written]_vars

\* C36: a call of download_video has returned True exactly if it appended its
\* filename to the ledger, once; a call that returned False, and a call still
\* running, has appended nothing. The bytes of the ledger change only in the
\* step in which a worker appends and returns True.
C36_TrueIffMarked ==
    /\ [](\A i \in W :
            /\ hist[i].marks = (IF workers[i].result = "true" THEN 1 ELSE 0)
            /\ workers[i].result = "true" => workers[i].pc = "returned" /\ hist[i].cause = "eof"
            /\ workers[i].result = "false" =>
                  /\ workers[i].pc = "returned"
                  /\ hist[i].cause \in {"http_status", "client_error", "timeout", "chunk_timeout",
                                        "stall_speed", "stall_progress", "unexpected"})
    /\ [][LedgerNow' # LedgerNow =>
            \E i \in DOMAIN workers :
                /\ workers[i].pc = "streaming"
                /\ workers'[i].result = "true"
                /\ hist'[i].marks = hist[i].marks + 1
                /\ ledger' = mark_as_downloaded(ledger, workers[i].filename)]_vars

\* C37: once the filename of a URL-shaped entry has been marked, the completed
\* set read from the ledger contains it, and the next run skips the entry.
C37_MarkedIsListed ==
    ledger # ledger_at_start =>
        /\ get_filename(Strip(worklist[1])) \in get_downloaded_files(ledger)
        /\ sched.pc # "start" =>
              /\ get_filename(Strip(worklist[1])) \in downloaded_files
              /\ video_urls = <<>>

\* Worker i receives a response whose status is not 200 in this step
NonOkResponse(i) ==
    /\ workers[i].pc = "get"
    /\ workers'[i].pc # "get"
    /\ hist'[i].status # 0
    /\ ~StatusOk(hist'[i].status)

\* C38: the step in which an attempt receives a status other than 200 changes
\* neither the destination files (none created, none truncated) nor the
\* ledger; the worker has not opened the file and has written nothing.
C38_NonOkLeavesFileAlone ==
    [][\A i \in DOMAIN workers :
          NonOkResponse(i) =>
              /\ files' = files
              /\ ledger' = ledger
              /\ ~hist'[i].open
              /\ hist'[i].written = hist[i].written
              /\ hist'[i].marks = 0]_vars

\* A retry answered 404 after an earlier attempt of the call had written a
\* chunk: the chunk is still in the file
C38_Witness ==
    \E i \in W :
        /\ workers[i].pc = "returned"
        /\ hist[i].cause = "http_status"
        /\ hist[i].status = 404
        /\ workers[i].retry_count >= 1
        /\ hist[i].written = 0
        /\ FileSize(files, workers[i].filename) = MiB
        /\ ledger = ledger_at_start

\* Worker i's attempt ends on an exception that is neither a network error
\* nor a timeout
UnexpectedRaised(i) == AttemptEnds(i) /\ hist'[i].cause = "unexpected"

\* C39: an unexpected exception in attempt k ends the call in that step: the
\* worker returns False with no backoff sleep added and no further attempt,
\* whatever k is; a call that ended so made k + 1 attempts, after the
\* rate-limit sleep and k backoff sleeps.
C39_UnexpectedNeverRetried ==
    /\ [][\A i \in DOMAIN workers :
            UnexpectedRaised(i) =>
                /\ workers'[i].pc = "returned"
                /\ workers'[i].result = "false"
                /\ workers'[i].retry_count = workers[i].retry_count
                /\ hist'[i].sleeps = hist[i].sleeps
                /\ hist'[i].attempts = hist[i].attempts]_vars
    /\ [](\A i \in W :
            hist[i].cause = "unexpected" =>
                /\ workers[i].pc = "returned"
                /\ workers[i].result = "false"
                /\ hist[i].attempts = workers[i].retry_count + 1
                /\ Len(Backoffs(i)) = workers[i].retry_count
                /\ Len(hist[i].sleeps) = workers[i].retry_count + 1)

\* The exception comes in the third attempt, from a chunk read
C39_Witness ==
    \E i \in W :
        /\ hist[i].cause = "unexpected"
        /\ workers[i].pc = "returned"
        /\ workers[i].retry_count = 2
        /\ hist[i].attempts = 3
        /\ hist[i].chunks >= 1
        /\ Len(Backoffs(i)) = 2

====
